---- MODULE Spec2Model ----
(***************************************************************************)
(* relic: per-value encrypted secrets artifact.                            *)
(*                                                                         *)
(* The model covers the value codec (encryptValue / decryptValue), the     *)
(* tree walker (encryptSecrets / decryptSecrets), the artifact serializer  *)
(* (encryptPayload / decryptPayload) and the CLI edit transaction          *)
(* (editCommand).                                                          *)
(*                                                                         *)
(* Representation.                                                         *)
(*  - A string is a sequence of units.  A unit is a character              *)
(*    [t |-> "ch"] or a base64 quantum [t |-> "b64"] (the four characters  *)
(*    that encode up to three bytes).                                      *)
(*  - A byte is a literal [t |-> "lit"] in 0..255, or a symbolic AES-GCM   *)
(*    output byte: a ciphertext byte [t |-> "ct"] or a tag byte            *)
(*    [t |-> "tag"].  PBKDF2 and AES-GCM are ideal: a derived key is the   *)
(*    triple it was derived from, a tag verifies only for the key, IV and  *)
(*    ciphertext it was computed over.                                     *)
(*  - A JSON value is a tagged record; a JSON text is a sequence of        *)
(*    lexemes, written by Stringify and read back by JsonParse.            *)
(***************************************************************************)
EXTENDS Integers, Sequences, FiniteSets, TLC

VARIABLES
    \* ---- library calls (crypto API used directly)
    masterKey,      \* master key of the last encrypt call
    value,          \* leaf value given to encryptValue
    token,          \* token returned by encryptValue (possibly altered since)
    altered,        \* section of the token that was altered, or "none"
    leafOut,        \* outcome of the last decryptValue
    data,           \* tree given to encryptSecrets
    encrypted,      \* tree returned by encryptSecrets
    treeKey,        \* master key given to the last decryptSecrets
    treeOut,        \* outcome of the last decryptSecrets
    \* ---- one decryptSecrets call, task by task
    walkTree,       \* the tree being decrypted
    walkKey,        \* the master key of the call
    tasks,          \* leaf path -> "pending" | "ok" | "err"
    walkResult,     \* what the caller has received
    walkFn,         \* "decrypt" or "encrypt": the walker that was called
    order,          \* the paths of the settled tasks, in completion order
    \* ---- relic edit
    pc,             \* position of editCommand
    artifact,       \* contents of the artifact file, or Absent
    artifactDir,    \* whether the artifact's directory exists
    keyFile,        \* contents of the key file, or Absent
    envKey,         \* RELIC_MASTER_KEY, or Absent
    tempFile,       \* contents of the temporary plaintext file, or Absent
    editKey,        \* master key resolved by editCommand
    exitCode,       \* exit status of the process, -1 while running
    artifact0,      \* artifact contents when the transaction started
    edited,         \* how the editor ended and what it left in the temp file
    writeBuf,       \* the artifact text encryptPayload returned
    iterOpt,        \* --iterations as parsed (0 when not given)
    printed,        \* the last line the process printed
    \* ---- repeated encryptValue calls
    calls,          \* the encryptValue calls made with one key and value
    callOuts,       \* what decryptValue returned for each call's token
    \* ---- decryptPayload / decryptAndParse, step by step
    payloadCall,    \* the call: function, master key, artifact text and its kind
    payloadData,    \* the parsed artifact once it passed the format check
    payloadOut,     \* what the caller has received
    attempts,       \* number of decryptValue calls the call has started
    \* ---- runtime API (createRelic) in one process
    artEnv,         \* RELIC_ARTIFACT, or Absent
    fileCache,      \* path -> file contents read so far
    globalCache,    \* cache key -> decrypted secrets object
    loads,          \* the load(), get(), has() and keys() calls made so far
    \* ---- relic init and relic --print-keys
    gitignore,      \* contents of .gitignore, or Absent
    output,         \* the lines written to stdout and stderr
    \* ---- deriveKey, call by call
    keyCache,       \* cache key -> derived key
    derives,        \* the deriveKey calls made so far
    \* ---- a second relic edit process on the same files
    otherProc           \* what the process that is not running holds, or None

libVars  == <<masterKey, value, token, altered, leafOut, data, encrypted, treeKey, treeOut>>
walkVars == <<walkTree, walkKey, tasks, walkResult, walkFn, order>>
editVars == <<pc, artifact, artifactDir, keyFile, envKey, tempFile, editKey,
              exitCode, artifact0, edited, writeBuf, iterOpt, printed>>
pairVars == <<calls, callOuts>>
payloadVars == <<payloadCall, payloadData, payloadOut, attempts>>
runtimeVars == <<artEnv, fileCache, globalCache, loads>>
cliVars == <<gitignore, output>>
moreVars == <<pairVars, payloadVars, runtimeVars, cliVars>>
sideVars == <<keyCache, derives, otherProc>>
vars     == <<libVars, walkVars, sideVars, editVars, moreVars>>

----------------------------------------------------------------------------
(* Bounds *)

\* number of distinct outcomes of one randomBytes draw
NRand == 2
\* nesting depth of the secrets trees
MaxDepth == 2

----------------------------------------------------------------------------
(* Strings and bytes *)

Chr(c) == [t |-> "ch", v |-> c]
Str(s) == [i \in 1..Len(s) |-> Chr(s[i])]
Byte(n) == [t |-> "lit", v |-> n]

Absent == [t |-> "absent"]
None == [t |-> "none"]
Some(v) == [t |-> "some", v |-> v]
\* a file (or an environment variable) with its contents
File(text) == [t |-> "file", v |-> text]

\* types.ts
ENCRYPTED_VALUE_PREFIX == Str(<<"r", "e", "l", "i", "c", ":", "v", "1", ":">>)
KDF_ITERATIONS == 600000
SALT_BYTES == 16
IV_BYTES == 12
\* AES-GCM default tag length, 128 bits
TAG_BYTES == 16

RECURSIVE Concat(_)
Concat(ss) == IF ss = <<>> THEN <<>> ELSE Head(ss) \o Concat(Tail(ss))

StartsWith(s, p) == Len(s) >= Len(p) /\ SubSeq(s, 1, Len(p)) = p
\* String.prototype.slice(n) / Uint8Array.prototype.slice(a, b): clamped
SliceFrom(s, n) == SubSeq(s, n + 1, Len(s))
Slice(s, a, b) ==
    LET lo == IF a > Len(s) THEN Len(s) ELSE a
        hi == IF b > Len(s) THEN Len(s) ELSE b
    IN  SubSeq(s, lo + 1, hi)

----------------------------------------------------------------------------
(* base64.ts *)

RECURSIVE encodeBase64(_)
\* Three bytes per quantum; the last quantum carries the one or two bytes left.
encodeBase64(bytes) ==
    IF bytes = <<>> THEN <<>>
    ELSE IF Len(bytes) <= 3 THEN << [t |-> "b64", v |-> bytes] >>
    ELSE << [t |-> "b64", v |-> SubSeq(bytes, 1, 3)] >> \o encodeBase64(SubSeq(bytes, 4, Len(bytes)))

\* Index of a character in the base64 alphabet (the characters the model uses);
\* -1 for a character outside the alphabet, which the decoder skips.
B64Index(c) ==
    CASE c = "A" -> 0
      [] c = "B" -> 1
      [] c = "D" -> 3
      [] c = "Q" -> 16
      [] c = "x" -> 49
      [] c = "6" -> 58
      [] c = "/" -> 63
      [] OTHER -> -1

RECURSIVE DecodeSextets(_)
\* Four sextets give three bytes, three give two, two give one, one gives none.
DecodeSextets(n) ==
    IF Len(n) >= 4 THEN
        << Byte((n[1] * 4 + (n[2] \div 16)) % 256),
           Byte(((n[2] % 16) * 16 + (n[3] \div 4)) % 256),
           Byte(((n[3] % 4) * 64 + n[4]) % 256) >> \o DecodeSextets(SubSeq(n, 5, Len(n)))
    ELSE IF Len(n) = 3 THEN
        << Byte((n[1] * 4 + (n[2] \div 16)) % 256),
           Byte(((n[2] % 16) * 16 + (n[3] \div 4)) % 256) >>
    ELSE IF Len(n) = 2 THEN
        << Byte((n[1] * 4 + (n[2] \div 16)) % 256) >>
    ELSE <<>>

RECURSIVE SextetsOf(_)
SextetsOf(s) ==
    IF s = <<>> THEN <<>>
    ELSE IF Head(s).t = "ch" /\ B64Index(Head(s).v) >= 0
         THEN <<B64Index(Head(s).v)>> \o SextetsOf(Tail(s))
         ELSE SextetsOf(Tail(s))

RECURSIVE QuantaBytes(_)
QuantaBytes(s) ==
    IF s = <<>> THEN <<>>
    ELSE (IF Head(s).t = "b64" THEN Head(s).v ELSE <<>>) \o QuantaBytes(Tail(s))

\* A text made of quanta decodes to the bytes they carry; a text typed as
\* characters decodes sextet by sextet.
decodeBase64(s) ==
    IF \A i \in 1..Len(s) : s[i].t = "b64"
    THEN QuantaBytes(s)
    ELSE DecodeSextets(SextetsOf(s))

----------------------------------------------------------------------------
(* JSON values *)

JStr(s) == [t |-> "str", v |-> s]
JNum(n) == [t |-> "num", v |-> n]
JBool(b) == [t |-> "bool", v |-> b]
JNull == [t |-> "null"]
JArr(a) == [t |-> "arr", v |-> a]
\* an object is the sequence of its entries in property order
JObj(o) == [t |-> "obj", v |-> o]
Entry(k, v) == [k |-> k, v |-> v]

\* value !== null && typeof value === "object" && !Array.isArray(value)
IsMapping(v) == v.t = "obj"

HasKey(o, k) == \E i \in 1..Len(o.v) : o.v[i].k = k
Get(o, k) == o.v[CHOOSE i \in 1..Len(o.v) : o.v[i].k = k].v
ObjectKeys(o) == [i \in 1..Len(o.v) |-> o.v[i].k]

\* obj[k] = v: an existing property keeps its place
SetProp(o, k, v) ==
    IF \E i \in 1..Len(o) : o[i].k = k
    THEN [i \in 1..Len(o) |-> IF o[i].k = k THEN Entry(k, v) ELSE o[i]]
    ELSE Append(o, Entry(k, v))

RECURSIVE fromEntries(_)
\* Object.fromEntries
fromEntries(es) ==
    IF es = <<>> THEN <<>>
    ELSE SetProp(fromEntries(SubSeq(es, 1, Len(es) - 1)), es[Len(es)].k, es[Len(es)].v)

----------------------------------------------------------------------------
(* JSON text: a sequence of lexemes *)

P(c) == [t |-> "p", v |-> c]          \* punctuation { } [ ] , :
LStr(s) == [t |-> "s", v |-> s]       \* string literal
LNum(n) == [t |-> "n", v |-> n]       \* number literal
LWord(w) == [t |-> "w", v |-> w]      \* true false null
LWs == [t |-> "ws", v |-> "\n"]       \* white space
LBad == [t |-> "bad", v |-> "?"]      \* anything that is no JSON lexeme

RECURSIVE Stringify(_)
RECURSIVE StringifyItems(_)
RECURSIVE StringifyEntries(_)
\* JSON.stringify(value)
Stringify(v) ==
    CASE v.t = "str" -> << LStr(v.v) >>
      [] v.t = "num" -> << LNum(v.v) >>
      [] v.t = "bool" -> << LWord(IF v.v THEN "true" ELSE "false") >>
      [] v.t = "null" -> << LWord("null") >>
      [] v.t = "arr" -> <<P("[")>> \o StringifyItems(v.v) \o <<P("]")>>
      [] v.t = "obj" -> <<P("{")>> \o StringifyEntries(v.v) \o <<P("}")>>
StringifyItems(a) ==
    IF a = <<>> THEN <<>>
    ELSE IF Len(a) = 1 THEN Stringify(a[1])
    ELSE Stringify(a[1]) \o <<P(",")>> \o StringifyItems(Tail(a))
StringifyEntries(o) ==
    IF o = <<>> THEN <<>>
    ELSE IF Len(o) = 1 THEN <<LStr(o[1].k), P(":")>> \o Stringify(o[1].v)
    ELSE <<LStr(o[1].k), P(":")>> \o Stringify(o[1].v) \o <<P(",")>> \o StringifyEntries(Tail(o))

\* JSON.stringify(value, null, 2) + "\n"
Pretty(v) == Stringify(v) \o <<LWs>>

Fail == [ok |-> FALSE]
Got(v, n) == [ok |-> TRUE, v |-> v, next |-> n]

RECURSIVE ParseValue(_, _)
RECURSIVE ParseItems(_, _, _)
RECURSIVE ParseEntries(_, _, _)
\* The value that starts at lexeme i, and the index after it.
ParseValue(ts, i) ==
    IF i > Len(ts) THEN Fail
    ELSE LET x == ts[i] IN
      CASE x.t = "s" -> Got(JStr(x.v), i + 1)
        [] x.t = "n" -> Got(JNum(x.v), i + 1)
        [] x.t = "w" -> Got(IF x.v = "null" THEN JNull ELSE JBool(x.v = "true"), i + 1)
        [] x.t = "p" /\ x.v = "[" ->
             IF i + 1 <= Len(ts) /\ ts[i + 1] = P("]")
             THEN Got(JArr(<<>>), i + 2)
             ELSE ParseItems(ts, i + 1, <<>>)
        [] x.t = "p" /\ x.v = "{" ->
             IF i + 1 <= Len(ts) /\ ts[i + 1] = P("}")
             THEN Got(JObj(<<>>), i + 2)
             ELSE ParseEntries(ts, i + 1, <<>>)
        [] OTHER -> Fail
ParseItems(ts, i, acc) ==
    LET r == ParseValue(ts, i) IN
    IF ~r.ok \/ r.next > Len(ts) THEN Fail
    ELSE IF ts[r.next] = P(",") THEN ParseItems(ts, r.next + 1, Append(acc, r.v))
    ELSE IF ts[r.next] = P("]") THEN Got(JArr(Append(acc, r.v)), r.next + 1)
    ELSE Fail
ParseEntries(ts, i, acc) ==
    IF i + 1 > Len(ts) \/ ts[i].t # "s" \/ ts[i + 1] # P(":") THEN Fail
    ELSE LET r == ParseValue(ts, i + 2) IN
      IF ~r.ok \/ r.next > Len(ts) THEN Fail
      ELSE IF ts[r.next] = P(",") THEN ParseEntries(ts, r.next + 1, SetProp(acc, ts[i].v, r.v))
      ELSE IF ts[r.next] = P("}") THEN Got(JObj(SetProp(acc, ts[i].v, r.v)), r.next + 1)
      ELSE Fail

NoWs(ts) == SelectSeq(ts, LAMBDA x : x.t # "ws")

\* JSON.parse(text): [ok |-> TRUE, v |-> value], or [ok |-> FALSE] for a SyntaxError
JsonParse(text) ==
    LET ts == NoWs(text)
        r == ParseValue(ts, 1)
    IN  IF r.ok /\ r.next = Len(ts) + 1 THEN [ok |-> TRUE, v |-> r.v] ELSE Fail

----------------------------------------------------------------------------
(* crypto: key derivation and AES-GCM *)

Ok(v) == [t |-> "ok", v |-> v]
Err(code) == [t |-> "err", v |-> code]

DECRYPT_FAILED == "RELIC_ERR_DECRYPT_FAILED"
INVALID_JSON == "RELIC_ERR_INVALID_JSON"

\* A variant that derives the key from the salt and the count alone.
deriveKey_Unkeyed(mk, salt, iterations) ==
    IF iterations = 0 THEN Err("OperationError")
    ELSE Ok([mk |-> <<>>, salt |-> salt, iterations |-> iterations])

\* The AES key PBKDF2-SHA256 derives from (masterKey, salt, iterations).
\* The Web Crypto call rejects an iteration count of 0.
deriveKey(mk, salt, iterations) ==
    IF iterations = 0 THEN Err("OperationError")
    ELSE Ok([mk |-> mk, salt |-> salt, iterations |-> iterations])

\* crypto.subtle.encrypt({name: "AES-GCM", iv}, key, plaintext): ciphertext || tag
AesGcmEncrypt(key, iv, pt) ==
    LET ct == [i \in 1..Len(pt) |->
                  [t |-> "ct", v |-> [key |-> key, iv |-> iv, i |-> i, p |-> pt[i]]]]
    IN  ct \o [j \in 1..TAG_BYTES |->
                  [t |-> "tag", v |-> [key |-> key, iv |-> iv, ct |-> ct, j |-> j]]]

\* A variant that returns the plaintext without verifying the tag.
AesGcmDecrypt_Unverified(key, iv, bytes) ==
    IF Len(bytes) < TAG_BYTES THEN Fail
    ELSE LET n == Len(bytes) - TAG_BYTES
         IN  IF \A i \in 1..n : bytes[i].t = "ct"
             THEN [ok |-> TRUE, v |-> [i \in 1..n |-> bytes[i].v.p]]
             ELSE Fail

\* crypto.subtle.decrypt: the plaintext, or a failure when the input is shorter
\* than a tag or the tag does not verify
AesGcmDecrypt(key, iv, bytes) ==
    IF Len(bytes) < TAG_BYTES THEN Fail
    ELSE LET n == Len(bytes) - TAG_BYTES
             ct == SubSeq(bytes, 1, n)
             tag == SubSeq(bytes, n + 1, Len(bytes))
         IN IF /\ \A i \in 1..n : ct[i].t = "ct"
               /\ tag = SubSeq(AesGcmEncrypt(key, iv, [i \in 1..n |-> ct[i].v.p]), n + 1, n + TAG_BYTES)
               /\ ct = SubSeq(AesGcmEncrypt(key, iv, [i \in 1..n |-> ct[i].v.p]), 1, n)
            THEN [ok |-> TRUE, v |-> [i \in 1..n |-> ct[i].v.p]]
            ELSE Fail

\* DataView.setUint32(0, n, false)
Uint32BE(n) ==
    << Byte((n \div 16777216) % 256), Byte((n \div 65536) % 256),
       Byte((n \div 256) % 256), Byte(n % 256) >>

\* a byte of the buffer read as a number
ByteVal(b) == IF b.t = "lit" THEN b.v ELSE 0

\* DataView.getUint32(0, false)
GetUint32BE(b) ==
    ByteVal(b[1]) * 16777216 + ByteVal(b[2]) * 65536 + ByteVal(b[3]) * 256 + ByteVal(b[4])

\* The salt and the IV that one pair of randomBytes calls returns, for each
\* outcome r of the random source.
RandSalt(r) == [i \in 1..SALT_BYTES |-> Byte((17 * r + i) % 256)]
RandIv(r) == [i \in 1..IV_BYTES |-> Byte((31 * r + 2 * i) % 256)]

----------------------------------------------------------------------------
(* crypto: single values *)

isEncryptedValue(v) == v.t = "str" /\ StartsWith(v.v, ENCRYPTED_VALUE_PREFIX)

\* A variant that serializes `value || ""`: a falsy value is stored as "".
encryptValue_Truthy(mk, v, iterations, r) ==
    LET falsy == v \in { JStr(<<>>), JNum(0), JBool(FALSE), JNull }
        salt == RandSalt(r)
        iv == RandIv(r)
        key == deriveKey(mk, salt, iterations).v
    IN  JStr(ENCRYPTED_VALUE_PREFIX \o encodeBase64(
            Uint32BE(iterations) \o salt \o iv
            \o AesGcmEncrypt(key, iv, Stringify(IF falsy THEN JStr(<<>>) ELSE v))))

\* A variant that derives the salt and the IV from the iteration count
\* instead of drawing them.
encryptValue_FixedNonce(mk, v, iterations, r) ==
    LET salt == RandSalt(iterations % 7)
        iv == RandIv(iterations % 7)
        key == deriveKey(mk, salt, iterations).v
    IN  JStr(ENCRYPTED_VALUE_PREFIX \o encodeBase64(
            Uint32BE(iterations) \o salt \o iv \o AesGcmEncrypt(key, iv, Stringify(v))))

\* encryptValue(masterKey, value, {iterations}) when randomBytes returns outcome r.
\* iterations is a valid PBKDF2 count (1 .. 2^32 - 1).
encryptValue(mk, v, iterations, r) ==
    LET plaintext == Stringify(v)
        salt == RandSalt(r)
        iv == RandIv(r)
        key == deriveKey(mk, salt, iterations).v
        ciphertext == AesGcmEncrypt(key, iv, plaintext)
        combined == Uint32BE(iterations) \o salt \o iv \o ciphertext
    IN  JStr(ENCRYPTED_VALUE_PREFIX \o encodeBase64(combined))

\* decryptValue(masterKey, encryptedString): Ok(value) or Err(kind of error thrown)
decryptValue(mk, s) ==
    IF ~isEncryptedValue(s) THEN Err("Error")
    ELSE
      LET encoded == SliceFrom(s.v, Len(ENCRYPTED_VALUE_PREFIX))
          combined == decodeBase64(encoded)
      IN
      IF Len(combined) < 4 THEN Err("RangeError")
      ELSE
        LET iterations == GetUint32BE(combined)
            salt == Slice(combined, 4, 4 + SALT_BYTES)
            iv == Slice(combined, 4 + SALT_BYTES, 4 + SALT_BYTES + IV_BYTES)
            ciphertext == Slice(combined, 4 + SALT_BYTES + IV_BYTES, Len(combined))
            key == deriveKey(mk, salt, iterations)
        IN
        IF key.t = "err" THEN key
        ELSE
          LET pt == AesGcmDecrypt(key.v, iv, ciphertext)
              parsed == IF pt.ok THEN JsonParse(pt.v) ELSE Fail
          IN  IF pt.ok /\ parsed.ok THEN Ok(parsed.v) ELSE Err(DECRYPT_FAILED)

----------------------------------------------------------------------------
(* crypto: trees *)

RECURSIVE LeafCount(_)
RECURSIVE LeafCountEntries(_)
\* number of encryptValue calls encryptSecrets makes for a tree
LeafCount(v) == IF IsMapping(v) THEN LeafCountEntries(v.v) ELSE 1
LeafCountEntries(es) ==
    IF es = <<>> THEN 0 ELSE LeafCount(Head(es).v) + LeafCountEntries(Tail(es))

RECURSIVE encryptSecrets(_, _, _, _)
RECURSIVE EncryptEntries(_, _, _, _)
\* encryptSecrets(masterKey, data, {iterations}); rs lists the outcomes of the
\* random source in call order (the entries' synchronous prefixes run in
\* entry order, depth first).
\* A variant that encrypts the top-level values and copies nested objects.
encryptSecrets_TopLevel(mk, d, iterations, rs) ==
    JObj(fromEntries([i \in 1..Len(d.v) |->
        Entry(d.v[i].k, IF IsMapping(d.v[i].v) THEN d.v[i].v
                        ELSE encryptValue(mk, d.v[i].v, iterations, rs[1]))]))

encryptSecrets(mk, d, iterations, rs) ==
    JObj(fromEntries(EncryptEntries(mk, d.v, iterations, rs)))
RECURSIVE EncryptEntries_SkipTokens(_, _, _, _)
\* A variant that leaves a string alone when it already carries the token prefix.
EncryptEntries_SkipTokens(mk, es, iterations, rs) ==
    IF es = <<>> THEN <<>>
    ELSE LET e == Head(es)
             n == LeafCount(e.v)
         IN  << Entry(e.k, IF IsMapping(e.v)
                           THEN encryptSecrets(mk, e.v, iterations, SubSeq(rs, 1, n))
                           ELSE IF isEncryptedValue(e.v) THEN e.v
                           ELSE encryptValue(mk, e.v, iterations, rs[1])) >>
             \o EncryptEntries_SkipTokens(mk, Tail(es), iterations, SubSeq(rs, n + 1, Len(rs)))

RECURSIVE EncryptEntries_PerElement(_, _, _, _)
\* A variant that encrypts an array element by element.
EncryptEntries_PerElement(mk, es, iterations, rs) ==
    IF es = <<>> THEN <<>>
    ELSE LET e == Head(es)
             n == LeafCount(e.v)
         IN  << Entry(e.k, IF IsMapping(e.v)
                           THEN encryptSecrets(mk, e.v, iterations, SubSeq(rs, 1, n))
                           ELSE IF e.v.t = "arr"
                           THEN JArr([i \in 1..Len(e.v.v) |->
                                        encryptValue(mk, e.v.v[i], iterations, rs[1])])
                           ELSE encryptValue(mk, e.v, iterations, rs[1])) >>
             \o EncryptEntries_PerElement(mk, Tail(es), iterations, SubSeq(rs, n + 1, Len(rs)))

EncryptEntries(mk, es, iterations, rs) ==
    IF es = <<>> THEN <<>>
    ELSE LET e == Head(es)
             n == LeafCount(e.v)
         IN  << Entry(e.k, IF IsMapping(e.v)
                           THEN encryptSecrets(mk, e.v, iterations, SubSeq(rs, 1, n))
                           ELSE encryptValue(mk, e.v, iterations, rs[1])) >>
             \o EncryptEntries(mk, Tail(es), iterations, SubSeq(rs, n + 1, Len(rs)))

\* Object.fromEntries(await Promise.all(entries)) over the settled outcomes es:
\* Ok(tree), or the error of a rejected entry (Promise.all rejects when any
\* entry rejects)
AwaitEntries(es) ==
    IF \E i \in 1..Len(es) : es[i].v.t = "err"
    THEN es[CHOOSE i \in 1..Len(es) :
              es[i].v.t = "err" /\ \A j \in 1..(i - 1) : es[j].v.t # "err"].v
    ELSE Ok(JObj(fromEntries([i \in 1..Len(es) |-> Entry(es[i].k, es[i].v.v)])))

RECURSIVE decryptSecrets(_, _)
RECURSIVE DecryptEntries(_, _)
\* decryptSecrets(masterKey, data): Ok(tree), or the error thrown
decryptSecrets(mk, d) == AwaitEntries(DecryptEntries(mk, d.v))
\* A variant that requires every leaf to be a token.
DecryptEntries_Strict(mk, es) ==
    [i \in 1..Len(es) |->
        Entry(es[i].k,
              IF IsMapping(es[i].v) THEN decryptSecrets(mk, es[i].v)
              ELSE decryptValue(mk, es[i].v))]

\* the settled outcome of each entry's task
DecryptEntries(mk, es) ==
    [i \in 1..Len(es) |->
        Entry(es[i].k,
              IF isEncryptedValue(es[i].v) THEN decryptValue(mk, es[i].v)
              ELSE IF IsMapping(es[i].v) THEN decryptSecrets(mk, es[i].v)
              ELSE Ok(es[i].v))]

----------------------------------------------------------------------------
(* crypto: artifact text *)

\* encryptPayload(masterKey, plaintext, {iterations})
encryptPayload(mk, plaintext, iterations, rs) ==
    Pretty(encryptSecrets(mk, JsonParse(plaintext).v, iterations, rs))

\* JSON.stringify(decrypted, null, 2) + "\n" of decryptPayload
StringifyDecrypted(decrypted) ==
    IF decrypted.t = "err" THEN decrypted ELSE Ok(Pretty(decrypted.v))

\* the key an array index has as a property
IndexKey(i) == Str(<< <<"0", "1", "2", "3", "4", "5", "6", "7", "8", "9">>[i + 1] >>)

\* A variant without the Array.isArray test: an array goes on as the object
\* Object.entries makes of it.
CheckParsed_NoArrayTest(parsed) ==
    IF ~parsed.ok THEN Err(INVALID_JSON)
    ELSE IF parsed.v.t = "arr"
    THEN Ok(JObj([i \in 1..Len(parsed.v.v) |-> Entry(IndexKey(i - 1), parsed.v.v[i])]))
    ELSE IF parsed.v.t # "obj" THEN Err(INVALID_JSON)
    ELSE Ok(parsed.v)

\* the format check of decryptPayload and decryptAndParse: the data, or the
\* invalidJsonError when JSON.parse threw or the value is not a plain object
CheckParsed(parsed) ==
    IF ~parsed.ok THEN Err(INVALID_JSON)
    ELSE IF parsed.v.t # "obj" THEN Err(INVALID_JSON)
    ELSE Ok(parsed.v)

\* decryptPayload after the format check
DecryptChecked(mk, checked) ==
    IF checked.t = "err" THEN checked
    ELSE StringifyDecrypted(decryptSecrets(mk, checked.v))

\* decryptPayload once JSON.parse has returned or thrown
DecryptParsed(mk, parsed) == DecryptChecked(mk, CheckParsed(parsed))

\* decryptPayload(masterKey, artifactString): Ok(text) or Err
decryptPayload(mk, artifactString) ==
    DecryptParsed(mk, JsonParse(artifactString))

\* decryptAndParse after the format check
ParseChecked(mk, checked) ==
    IF checked.t = "err" THEN checked ELSE decryptSecrets(mk, checked.v)

\* decryptAndParse(masterKey, artifactString): Ok(tree) or Err
decryptAndParse(mk, artifactString) ==
    ParseChecked(mk, CheckParsed(JsonParse(artifactString)))

----------------------------------------------------------------------------
(* Inputs of the library calls *)

KA == Str(<<"a">>)
KB == Str(<<"b">>)

MasterKeys == { Str(<<"k">>), Str(<<"w">>) }

\* --iterations of the tests (tests/cli.test.ts)
TEST_ITERATIONS == 1000
Iterations == { KDF_ITERATIONS, TEST_ITERATIONS }

\* a string that carries the token prefix without being a token
PrefixedString == JStr(ENCRYPTED_VALUE_PREFIX \o Str(<<"A", "A">>))

LeafValues ==
    { JStr(<<>>), JStr(Str(<<"s">>)), JStr(Str(<<"0">>)),
      JStr(ENCRYPTED_VALUE_PREFIX), PrefixedString,
      JNum(0), JNum(42), JNum(-1), JBool(FALSE), JBool(TRUE), JNull,
      JArr(<<>>), JArr(<<JNum(1), JStr(Str(<<"x">>))>>),
      JArr(<<JArr(<<>>), JNull, JBool(FALSE)>>),
      JArr(<<JObj(<<Entry(KA, JNum(0))>>)>>) }

TreeLeaves == { PrefixedString, JNum(0), JArr(<<JNull>>) }

RECURSIVE TreesOf(_)
\* the secrets trees of nesting depth at most d over the keys a, b
TreesOf(d) ==
    IF d = 0 THEN {}
    ELSE LET sub == TreesOf(d - 1) IN
         {JObj(<<>>)}
         \cup {JObj(<<Entry(KA, v)>>) : v \in TreeLeaves \cup sub}
         \cup {JObj(<<Entry(KA, v), Entry(KB, w)>>) : v \in TreeLeaves \cup sub, w \in TreeLeaves}
         \cup {JObj(<<Entry(KB, v), Entry(KA, w)>>) : v \in TreeLeaves, w \in sub}

Trees == TreesOf(MaxDepth)

Rand == 0..(NRand - 1)

\* the outcomes of n successive draws of the random source started at seed
RandStream(seed, n) == [i \in 1..n |-> (seed + i - 1) % NRand]

\* no call has been made and relic edit is not running
Init ==
    /\ masterKey = None
    /\ value = None
    /\ token = None
    /\ altered = "none"
    /\ leafOut = None
    /\ data = None
    /\ encrypted = None
    /\ treeKey = None
    /\ treeOut = None
    /\ walkTree = None
    /\ walkKey = None
    /\ tasks = <<>>
    /\ walkResult = None
    /\ walkFn = None
    /\ order = <<>>
    /\ keyCache = {}
    /\ derives = <<>>
    /\ otherProc = None
    /\ calls = <<>>
    /\ callOuts = None
    /\ payloadCall = None
    /\ payloadData = None
    /\ payloadOut = None
    /\ attempts = 0
    /\ artEnv = Absent
    /\ fileCache = {}
    /\ globalCache = {}
    /\ loads = <<>>
    /\ gitignore = Absent
    /\ output = <<>>
    /\ pc = "off"
    /\ artifact = Absent
    /\ artifactDir = FALSE
    /\ keyFile = Absent
    /\ envKey = Absent
    /\ tempFile = Absent
    /\ editKey = None
    /\ exitCode = -1
    /\ artifact0 = Absent
    /\ edited = None
    /\ writeBuf = None
    /\ iterOpt = 0
    /\ printed = ""

----------------------------------------------------------------------------
(* Library calls *)

\* await encryptValue(k, v, {iterations})
EncryptValueCall ==
    /\ token = None /\ data = None
    /\ \E k \in MasterKeys, v \in LeafValues, it \in Iterations, r \in Rand :
         /\ masterKey' = k
         /\ value' = v
         /\ token' = encryptValue(k, v, it, r)
    /\ UNCHANGED <<altered, leafOut, data, encrypted, treeKey, treeOut>>
    /\ UNCHANGED <<walkVars, sideVars, editVars, moreVars>>

\* the bytes a token carries
Combined(tok) == decodeBase64(SliceFrom(tok.v, Len(ENCRYPTED_VALUE_PREFIX)))

\* first and last byte (1-based) of a section of the token's bytes
SectionFirst(sec) ==
    CASE sec = "iterations" -> 1
      [] sec = "salt" -> 4 + 1
      [] sec = "iv" -> 4 + SALT_BYTES + 1
      [] sec = "ciphertext" -> 4 + SALT_BYTES + IV_BYTES + 1
SectionLast(sec, n) ==
    CASE sec = "iterations" -> 4
      [] sec = "salt" -> 4 + SALT_BYTES
      [] sec = "iv" -> 4 + SALT_BYTES + IV_BYTES
      [] sec = "ciphertext" -> n

\* bytes that differ from b: another literal, or for an AES-GCM output byte a
\* literal or the output byte that follows it in the buffer
OtherBytes(bytes, p) ==
    IF bytes[p].t = "lit"
    THEN { Byte((bytes[p].v + 1) % 256), Byte((bytes[p].v + 128) % 256) }
    ELSE { Byte(0) } \cup (IF p < Len(bytes) THEN { bytes[p + 1] } ELSE { bytes[p - 1] })

\* Someone changes one byte of the salt, the IV or the ciphertext-plus-tag
\* section of the token.
AlterToken ==
    /\ token # None /\ altered = "none" /\ leafOut = None
    /\ \E sec \in {"salt", "iv", "ciphertext"} :
       \E p \in SectionFirst(sec)..SectionLast(sec, Len(Combined(token))) :
       \E nb \in OtherBytes(Combined(token), p) :
         /\ token' = JStr(ENCRYPTED_VALUE_PREFIX
                          \o encodeBase64([Combined(token) EXCEPT ![p] = nb]))
         /\ altered' = sec
    /\ UNCHANGED <<masterKey, value, leafOut, data, encrypted, treeKey, treeOut>>
    /\ UNCHANGED <<walkVars, sideVars, editVars, moreVars>>

\* await decryptValue(k, token)
DecryptValueCall ==
    /\ token # None
    /\ \E k \in MasterKeys :
         leafOut' = [key |-> k, out |-> decryptValue(k, token)]
    /\ UNCHANGED <<masterKey, value, token, altered, data, encrypted, treeKey, treeOut>>
    /\ UNCHANGED <<walkVars, sideVars, editVars, moreVars>>

\* await encryptSecrets(k, d, {iterations})
EncryptSecretsCall ==
    /\ token = None /\ data = None
    /\ \E k \in MasterKeys, d \in Trees, seed \in Rand :
         /\ masterKey' = k
         /\ data' = d
         /\ encrypted' = encryptSecrets(k, d, TEST_ITERATIONS, RandStream(seed, LeafCount(d)))
    /\ UNCHANGED <<value, token, altered, leafOut, treeKey, treeOut>>
    /\ UNCHANGED <<walkVars, sideVars, editVars, moreVars>>

\* await decryptSecrets(k, encrypted)
DecryptSecretsCall ==
    /\ encrypted # None
    /\ \E k \in MasterKeys :
         /\ treeKey' = k
         /\ treeOut' = decryptSecrets(k, encrypted)
    /\ UNCHANGED <<masterKey, value, token, altered, leafOut, data, encrypted>>
    /\ UNCHANGED <<walkVars, sideVars, editVars, moreVars>>

ValueNext ==
    \/ EncryptValueCall
    \/ AlterToken
    \/ DecryptValueCall

TreeNext ==
    \/ EncryptSecretsCall
    \/ DecryptSecretsCall

ValueSpec == Init /\ [][ValueNext]_vars
TreeSpec == Init /\ [][TreeNext]_vars

----------------------------------------------------------------------------
(* decryptValue given a prefixed string with a malformed body *)

\* the body of a token cut to its first n bytes
CutToken(tok, n) ==
    JStr(ENCRYPTED_VALUE_PREFIX \o encodeBase64(SubSeq(Combined(tok), 1, n)))

\* the token with its iteration field set to 0
ZeroIterations(tok) ==
    JStr(ENCRYPTED_VALUE_PREFIX
         \o encodeBase64(Uint32BE(0) \o SubSeq(Combined(tok), 4 + 1, Len(Combined(tok)))))

\* prefixed strings whose body was typed by hand
TypedTokens ==
    { JStr(ENCRYPTED_VALUE_PREFIX \o Str(s)) :
          s \in { <<>>, <<"?">>, <<"A">>, <<"A", "A">>, <<"A", "A", "A", "A">>,
                  <<"A", "A", "A", "A", "A", "A">>, <<"Q", "Q", "x", "6", "/", "B", "D", "A">> } }

\* Someone hands over a prefixed string that no encryptValue call returned:
\* a token cut short, a token with the iteration count 0, or a typed body.
ForgeToken ==
    /\ token = None /\ data = None
    /\ \E k \in MasterKeys, r \in Rand :
         /\ masterKey' = k
         /\ token' \in { CutToken(encryptValue(k, JNum(0), TEST_ITERATIONS, r), n) :
                             n \in 0..(Len(Combined(encryptValue(k, JNum(0), TEST_ITERATIONS, r))) - 1) }
                       \cup { ZeroIterations(encryptValue(k, JNum(0), TEST_ITERATIONS, r)) }
                       \cup TypedTokens
    /\ altered' = "body"
    /\ UNCHANGED <<value, leafOut, data, encrypted, treeKey, treeOut>>
    /\ UNCHANGED <<walkVars, sideVars, editVars, moreVars>>

BodyNext ==
    \/ ForgeToken
    \/ DecryptValueCall

BodySpec == Init /\ [][BodyNext]_vars

----------------------------------------------------------------------------
(* tokens with another version tag *)

UNSUPPORTED_VERSION == "RELIC_ERR_UNSUPPORTED_VERSION"
INVALID_ARTIFACT_FORMAT == "RELIC_ERR_INVALID_ARTIFACT_FORMAT"

\* the token with the version tag "relic:v2:" in place of "relic:v1:"
Retag(tok) ==
    JStr(Str(<<"r", "e", "l", "i", "c", ":", "v", "2", ":">>)
         \o SliceFrom(tok.v, Len(ENCRYPTED_VALUE_PREFIX)))

\* Someone hands over a token of another version.
OtherVersionToken ==
    /\ token = None /\ data = None
    /\ \E k \in MasterKeys, v \in LeafValues, it \in Iterations, r \in Rand :
         /\ masterKey' = k
         /\ value' = v
         /\ token' = Retag(encryptValue(k, v, it, r))
    /\ altered' = "version"
    /\ UNCHANGED <<leafOut, data, encrypted, treeKey, treeOut>>
    /\ UNCHANGED <<walkVars, sideVars, editVars, moreVars>>

\* An artifact holds a token of another version, at the top or nested,
\* next to a token of this version.
OtherVersionTree ==
    /\ token = None /\ data = None
    /\ \E k \in MasterKeys, v \in TreeLeaves, r \in Rand, nested \in BOOLEAN :
         /\ masterKey' = k
         /\ data' = JObj(<<Entry(KA, IF nested THEN JObj(<<Entry(KB, v)>>) ELSE v),
                           Entry(KB, v)>>)
         /\ encrypted' =
              JObj(<<Entry(KA, IF nested
                               THEN JObj(<<Entry(KB, Retag(encryptValue(k, v, TEST_ITERATIONS, r)))>>)
                               ELSE Retag(encryptValue(k, v, TEST_ITERATIONS, r))),
                     Entry(KB, encryptValue(k, v, TEST_ITERATIONS, r))>>)
    /\ altered' = "version"
    /\ UNCHANGED <<value, token, leafOut, treeKey, treeOut>>
    /\ UNCHANGED <<walkVars, sideVars, editVars, moreVars>>

VersionNext ==
    \/ OtherVersionToken
    \/ OtherVersionTree
    \/ DecryptValueCall
    \/ DecryptSecretsCall

VersionSpec == Init /\ [][VersionNext]_vars

----------------------------------------------------------------------------
(* encryptValue called again with the same arguments *)

\* number of encryptValue calls followed
MaxCalls == 2

\* await encryptValue(k, v, {iterations}), the first call
EncryptValueFirst ==
    /\ calls = <<>>
    /\ \E k \in MasterKeys, v \in LeafValues, it \in Iterations, r \in Rand :
         calls' = << [key |-> k, value |-> v, iterations |-> it, r |-> r,
                      token |-> encryptValue(k, v, it, r)] >>
    /\ UNCHANGED <<callOuts, libVars, walkVars, sideVars, editVars, payloadVars, runtimeVars, cliVars>>

\* await encryptValue with the arguments of the first call; randomBytes
\* returns whatever the random source gives this time
EncryptValueAgain ==
    /\ calls # <<>> /\ Len(calls) < MaxCalls /\ callOuts = None
    /\ \E r \in Rand :
         calls' = Append(calls, [calls[1] EXCEPT !.r = r,
                    !.token = encryptValue(calls[1].key, calls[1].value,
                                           calls[1].iterations, r)])
    /\ UNCHANGED <<callOuts, libVars, walkVars, sideVars, editVars, payloadVars, runtimeVars, cliVars>>

\* await decryptValue(k, token) for the token of every call
DecryptEach ==
    /\ calls # <<>> /\ callOuts = None
    /\ callOuts' = Some([i \in 1..Len(calls) |->
                          decryptValue(calls[i].key, calls[i].token)])
    /\ UNCHANGED <<calls, libVars, walkVars, sideVars, editVars, payloadVars, runtimeVars, cliVars>>

PairNext ==
    \/ EncryptValueFirst
    \/ EncryptValueAgain
    \/ DecryptEach

PairSpec == Init /\ [][PairNext]_vars

----------------------------------------------------------------------------
(* decryptSecrets on an artifact that mixes tokens and plaintext *)

\* values an artifact can hold in plaintext
PlainLeaves ==
    { JStr(Str(<<"s">>)), JNum(0), JBool(FALSE), JNull, JArr(<<JNull, JStr(Str(<<"x">>))>>) }

RECURSIVE ShapesOf(_, _)
\* the trees of nesting depth at most d over the keys a, b whose leaves are l
ShapesOf(d, l) ==
    IF d = 0 THEN {}
    ELSE LET sub == ShapesOf(d - 1, l) IN
         {JObj(<<>>)}
         \cup {JObj(<<Entry(KA, v)>>) : v \in {l} \cup sub}
         \cup {JObj(<<Entry(KA, v), Entry(KB, l)>>) : v \in {l} \cup sub}
         \cup {JObj(<<Entry(KB, l), Entry(KA, w)>>) : w \in sub}

RECURSIVE MixEntries(_, _, _)
\* the entries es with the i-th leaf (depth first) encrypted with key k when
\* plan[i] holds, left in plaintext otherwise
MixEntries(k, es, plan) ==
    IF es = <<>> THEN <<>>
    ELSE LET e == Head(es)
             n == LeafCount(e.v)
         IN  << Entry(e.k,
                  IF IsMapping(e.v) THEN JObj(MixEntries(k, e.v.v, SubSeq(plan, 1, n)))
                  ELSE IF plan[1] THEN encryptValue(k, e.v, TEST_ITERATIONS, 0)
                  ELSE e.v) >>
             \o MixEntries(k, Tail(es), SubSeq(plan, n + 1, Len(plan)))

\* an artifact is at hand in which some leaves are tokens made with key k
\* and the others are plaintext
MixedArtifact ==
    /\ data = None /\ token = None
    /\ \E k \in MasterKeys, l \in PlainLeaves :
       \E d \in ShapesOf(MaxDepth, l) :
       \E plan \in [1..LeafCount(d) -> BOOLEAN] :
         /\ masterKey' = k
         /\ data' = d
         /\ encrypted' = JObj(MixEntries(k, d.v, plan))
    /\ UNCHANGED <<value, token, altered, leafOut, treeKey, treeOut>>
    /\ UNCHANGED <<walkVars, sideVars, editVars, moreVars>>

MixedNext ==
    \/ MixedArtifact
    \/ DecryptSecretsCall

MixedSpec == Init /\ [][MixedNext]_vars

----------------------------------------------------------------------------
(* One decryptSecrets call, task by task *)

\* The trees handed to the task-level model: one leaf value, every shape.
RECURSIVE WalkShapes(_)
WalkShapes(d) ==
    IF d = 0 THEN {}
    ELSE LET sub == WalkShapes(d - 1) IN
         {JObj(<<>>)}
         \cup {JObj(<<Entry(KA, v)>>) : v \in {JNum(0)} \cup sub}
         \cup {JObj(<<Entry(KA, v), Entry(KB, JNum(0))>>) : v \in {JNum(0)} \cup sub}
         \cup {JObj(<<Entry(KB, JNum(0)), Entry(KA, w)>>) : w \in sub}

LeafKinds == {"own", "foreign", "malformed", "plain"}

RECURSIVE PlantEntries(_, _, _)
\* The artifact tree whose i-th leaf (depth first) is of kind plan[i]: a token
\* made with key k, a token made with another key, a string with the token
\* prefix and a malformed body, or the plaintext value itself.
PlantEntries(k, es, plan) ==
    IF es = <<>> THEN <<>>
    ELSE LET e == Head(es)
             n == LeafCount(e.v)
             other == CHOOSE o \in MasterKeys : o # k
         IN  << Entry(e.k,
                  IF IsMapping(e.v) THEN JObj(PlantEntries(k, e.v.v, SubSeq(plan, 1, n)))
                  ELSE CASE plan[1] = "own" -> encryptValue(k, e.v, TEST_ITERATIONS, 0)
                         [] plan[1] = "foreign" -> encryptValue(other, e.v, TEST_ITERATIONS, 0)
                         [] plan[1] = "malformed" -> PrefixedString
                         [] plan[1] = "plain" -> e.v) >>
             \o PlantEntries(k, Tail(es), SubSeq(plan, n + 1, Len(plan)))

RECURSIVE TaskPaths(_, _)
\* the entries whose task awaits decryptValue, each named by its path of
\* entry indices
TaskPaths(es, path) ==
    UNION { IF isEncryptedValue(es[i].v) THEN { Append(path, i) }
            ELSE IF IsMapping(es[i].v) THEN TaskPaths(es[i].v.v, Append(path, i))
            ELSE {} : i \in 1..Len(es) }

RECURSIVE ValueAt(_, _)
ValueAt(v, path) == IF path = <<>> THEN v ELSE ValueAt(v.v[Head(path)].v, Tail(path))

\* the settled tasks of the call, in completion order, the task that settles
\* in this step last
Completed(ts) ==
    LET rest == { q \in DOMAIN ts : \A i \in 1..Len(order) : order[i] # q }
    IN  IF rest = {} THEN order ELSE Append(order, CHOOSE q \in rest : TRUE)

RECURSIVE CollectEntries_ByCompletion(_, _, _)
\* A variant that pairs the keys of the awaited entries, in entry order, with
\* their results in completion order.
CollectEntries_ByCompletion(es, path, ts) ==
    LET here == SelectSeq(Completed(ts),
                    LAMBDA q : Len(q) = Len(path) + 1 /\ SubSeq(q, 1, Len(path)) = path)
    IN  fromEntries([i \in 1..Len(es) |->
          Entry(es[i].k,
              IF isEncryptedValue(es[i].v)
              THEN ts[here[Cardinality({ j \in 1..i : isEncryptedValue(es[j].v) })]].v
              ELSE IF IsMapping(es[i].v)
                   THEN JObj(CollectEntries_ByCompletion(es[i].v.v, Append(path, i), ts))
              ELSE es[i].v)])

RECURSIVE CollectEntries(_, _, _)
\* Object.fromEntries(await Promise.all(...)): the i-th result goes with the
\* i-th entry's key
CollectEntries(es, path, ts) ==
    fromEntries([i \in 1..Len(es) |->
        Entry(es[i].k,
              IF isEncryptedValue(es[i].v) THEN ts[Append(path, i)].v
              ELSE IF IsMapping(es[i].v) THEN JObj(CollectEntries(es[i].v.v, Append(path, i), ts))
              ELSE es[i].v)])

\* A variant of the walker that collects with Promise.allSettled and keeps the
\* fulfilled entries.
PromiseAllSettled_Keep(result, tree, ts, out) ==
    IF \E p \in DOMAIN ts : ts[p] = None THEN None
    ELSE LET RECURSIVE Kept(_, _)
             Kept(es, path) ==
                 LET keep == SelectSeq([i \in 1..Len(es) |-> [i |-> i, e |-> es[i]]],
                                LAMBDA x : ~(isEncryptedValue(x.e.v) /\ ts[Append(path, x.i)].t = "err"))
                 IN  [j \in 1..Len(keep) |->
                        Entry(keep[j].e.k,
                              IF isEncryptedValue(keep[j].e.v) THEN ts[Append(path, keep[j].i)].v
                              ELSE IF IsMapping(keep[j].e.v)
                                   THEN JObj(Kept(keep[j].e.v.v, Append(path, keep[j].i)))
                                   ELSE keep[j].e.v)]
         IN  Ok(JObj(Kept(tree.v, <<>>)))

\* The promise decryptSecrets returns, after a task settled with `out`:
\* a settled promise stays as it is; the first rejection rejects it; it
\* fulfils when every task has fulfilled.
PromiseAll(result, tree, ts, out) ==
    IF result # None THEN result
    ELSE IF out.t = "err" THEN out
    ELSE IF \A p \in DOMAIN ts : ts[p] # None /\ ts[p].t = "ok"
         THEN Ok(JObj(CollectEntries(tree.v, <<>>, ts)))
         ELSE None

\* decryptSecrets(k, tree) is called: every entry's task starts.
StartDecrypt ==
    /\ walkTree = None
    /\ \E k \in MasterKeys, d \in WalkShapes(MaxDepth) :
       \E plan \in [1..LeafCount(d) -> LeafKinds] :
         LET tree == JObj(PlantEntries(k, d.v, plan))
             ts == [p \in TaskPaths(tree.v, <<>>) |-> None]
         IN /\ walkTree' = tree
            /\ walkKey' = k
            /\ tasks' = ts
            /\ walkResult' = PromiseAll(None, tree, ts, Ok(tree))
    /\ walkFn' = "decrypt"
    /\ order' = <<>>
    /\ UNCHANGED <<libVars, sideVars, editVars, moreVars>>

\* One pending decryptValue task settles.
SettleTask ==
    /\ walkTree # None /\ walkFn = "decrypt"
    /\ \E p \in DOMAIN tasks :
         /\ tasks[p] = None
         /\ order' = Append(order, p)
         /\ LET out == decryptValue(walkKey, ValueAt(walkTree, p))
                ts == [tasks EXCEPT ![p] = out]
            IN /\ tasks' = ts
               /\ walkResult' = PromiseAll(walkResult, walkTree, ts, out)
    /\ UNCHANGED <<walkTree, walkKey, walkFn>>
    /\ UNCHANGED <<libVars, sideVars, editVars, moreVars>>

\* secrets whose leaves all differ, with keys out of alphabetical order
OrderTrees ==
    { JObj(<<Entry(KB, JNum(0)), Entry(KA, JStr(Str(<<"s">>)))>>),
      JObj(<<Entry(KA, JObj(<<Entry(KB, JNum(0)), Entry(KA, JStr(Str(<<"s">>)))>>)),
             Entry(KB, JArr(<<JNull>>))>>) }

\* decryptSecrets(k, tree) is called on an artifact whose tokens all differ.
StartOrdered ==
    /\ walkTree = None
    /\ \E k \in MasterKeys, d \in OrderTrees :
         LET tree == encryptSecrets(k, d, TEST_ITERATIONS, RandStream(0, LeafCount(d)))
             ts == [p \in TaskPaths(tree.v, <<>>) |-> None]
         IN /\ walkTree' = tree
            /\ walkKey' = k
            /\ tasks' = ts
            /\ walkResult' = PromiseAll(None, tree, ts, Ok(tree))
    /\ walkFn' = "decrypt"
    /\ order' = <<>>
    /\ UNCHANGED <<libVars, sideVars, editVars, moreVars>>

RECURSIVE EncryptTaskPaths(_, _)
\* the entries whose task awaits encryptValue: every value that is no mapping
EncryptTaskPaths(es, path) ==
    UNION { IF IsMapping(es[i].v) THEN EncryptTaskPaths(es[i].v.v, Append(path, i))
            ELSE { Append(path, i) } : i \in 1..Len(es) }

RECURSIVE CollectEncrypted(_, _, _)
\* Object.fromEntries(await Promise.all(...)) of encryptSecrets
CollectEncrypted(es, path, ts) ==
    fromEntries([i \in 1..Len(es) |->
        Entry(es[i].k,
              IF IsMapping(es[i].v) THEN JObj(CollectEncrypted(es[i].v.v, Append(path, i), ts))
              ELSE ts[Append(path, i)].v)])

\* encryptSecrets(k, data, {iterations}) is called: every entry's task starts.
StartEncrypt ==
    /\ walkTree = None
    /\ \E k \in MasterKeys, d \in OrderTrees :
         /\ walkTree' = d
         /\ walkKey' = k
         /\ tasks' = [p \in EncryptTaskPaths(d.v, <<>>) |-> None]
    /\ walkResult' = None
    /\ walkFn' = "encrypt"
    /\ order' = <<>>
    /\ UNCHANGED <<libVars, sideVars, editVars, moreVars>>

\* One pending encryptValue task settles.
SettleEncrypt ==
    /\ walkTree # None /\ walkFn = "encrypt"
    /\ \E p \in DOMAIN tasks, r \in Rand :
         /\ tasks[p] = None
         /\ order' = Append(order, p)
         /\ LET ts == [tasks EXCEPT
                         ![p] = Ok(encryptValue(walkKey, ValueAt(walkTree, p), TEST_ITERATIONS, r))]
            IN /\ tasks' = ts
               /\ walkResult' = IF \A q \in DOMAIN ts : ts[q] # None
                                THEN Ok(JObj(CollectEncrypted(walkTree.v, <<>>, ts)))
                                ELSE None
    /\ UNCHANGED <<walkTree, walkKey, walkFn>>
    /\ UNCHANGED <<libVars, sideVars, editVars, moreVars>>

OrderNext ==
    \/ StartOrdered
    \/ SettleTask
    \/ StartEncrypt
    \/ SettleEncrypt

OrderSpec == Init /\ [][OrderNext]_vars

WalkNext ==
    \/ StartDecrypt
    \/ SettleTask

WalkSpec == Init /\ [][WalkNext]_vars

----------------------------------------------------------------------------
(* decryptPayload and decryptAndParse, step by step *)

\* a text with what it is as JSON
Text(kind, text) == [kind |-> kind, text |-> text]

\* the artifact texts given to decryptPayload and decryptAndParse
PayloadTexts ==
    { Text("object", encryptPayload(k, Stringify(d), TEST_ITERATIONS, RandStream(0, LeafCount(d)))) :
          k \in MasterKeys, d \in { JObj(<<>>),
                                    JObj(<<Entry(KA, JStr(Str(<<"s">>)))>>),
                                    JObj(<<Entry(KA, JObj(<<Entry(KB, JNum(0))>>)),
                                           Entry(KB, PrefixedString)>>) } }
    \cup { Text("object", Stringify(JObj(<<>>))),
           Text("object", Pretty(JObj(<<Entry(KA, JNum(0))>>))),
           Text("object", Pretty(JObj(<<Entry(KA, PrefixedString)>>))),
           Text("array", Stringify(JArr(<<>>))),
           Text("array", Stringify(JArr(<<JNum(1), JNum(2), JNum(3)>>))),
           Text("array", Pretty(JArr(<<encryptValue(Str(<<"k">>), JNum(0), TEST_ITERATIONS, 0)>>))),
           Text("scalar", Stringify(JStr(Str(<<"s">>)))),
           Text("scalar", Stringify(JNum(1))),
           Text("scalar", Stringify(JBool(TRUE))),
           Text("scalar", Stringify(encryptValue(Str(<<"k">>), JNum(0), TEST_ITERATIONS, 0))),
           Text("null", Stringify(JNull)),
           Text("invalid", <<>>),
           Text("invalid", <<LBad>>),
           Text("invalid", <<P("{"), LStr(KA), P(":")>>),
           Text("invalid", <<P("{"), P("}"), LBad>>),
           Text("invalid", <<LWord("null"), LWs, LWord("null")>>) }

\* decryptPayload or decryptAndParse is called
PayloadStart ==
    /\ payloadCall = None
    /\ \E fn \in {"decryptPayload", "decryptAndParse"}, k \in MasterKeys, x \in PayloadTexts :
         payloadCall' = [fn |-> fn, key |-> k, kind |-> x.kind, text |-> x.text]
    /\ UNCHANGED <<payloadData, payloadOut, attempts>>
    /\ UNCHANGED <<libVars, walkVars, sideVars, editVars, pairVars, runtimeVars, cliVars>>

\* JSON.parse in its try block and the object test
PayloadCheck ==
    /\ payloadCall # None /\ payloadData = None /\ payloadOut = None
    /\ LET checked == CheckParsed(JsonParse(payloadCall.text))
       IN  IF checked.t = "err"
           THEN payloadOut' = checked /\ UNCHANGED payloadData
           ELSE payloadData' = Some(checked.v) /\ UNCHANGED payloadOut
    /\ UNCHANGED <<payloadCall, attempts>>
    /\ UNCHANGED <<libVars, walkVars, sideVars, editVars, pairVars, runtimeVars, cliVars>>

\* decryptSecrets(masterKey, data) and the return
PayloadDecrypt ==
    /\ payloadData # None /\ payloadOut = None
    /\ attempts' = Cardinality(TaskPaths(payloadData.v.v, <<>>))
    /\ payloadOut' = IF payloadCall.fn = "decryptPayload"
                     THEN DecryptChecked(payloadCall.key, Ok(payloadData.v))
                     ELSE ParseChecked(payloadCall.key, Ok(payloadData.v))
    /\ UNCHANGED <<payloadCall, payloadData>>
    /\ UNCHANGED <<libVars, walkVars, sideVars, editVars, pairVars, runtimeVars, cliVars>>

PayloadNext ==
    \/ PayloadStart
    \/ PayloadCheck
    \/ PayloadDecrypt

PayloadSpec == Init /\ [][PayloadNext]_vars

----------------------------------------------------------------------------
(* cli/index.ts: relic edit *)

IsSpace(u) == u.t = "ch" /\ u.v \in {" ", "\n"}

RECURSIVE TrimStart(_)
TrimStart(s) == IF s # <<>> /\ IsSpace(Head(s)) THEN TrimStart(Tail(s)) ELSE s
RECURSIVE TrimEnd(_)
TrimEnd(s) == IF s # <<>> /\ IsSpace(s[Len(s)]) THEN TrimEnd(SubSeq(s, 1, Len(s) - 1)) ELSE s
\* String.prototype.trim
Trim(s) == TrimEnd(TrimStart(s))

\* getMasterKey(keyFile): Some(key), or None when the process exits
getMasterKey(kf, env) ==
    IF kf # Absent /\ Trim(kf.v) # <<>> THEN Some(Trim(kf.v))
    ELSE IF env # Absent /\ env.v # <<>> THEN Some(env.v)
    ELSE None

\* validateAndFormatJson once JSON.parse has returned or thrown
FormatParsed(parsed) ==
    IF ~parsed.ok THEN Err("SyntaxError")
    ELSE IF parsed.v.t # "obj" THEN Err("Error")
    ELSE Ok(Pretty(parsed.v))

\* validateAndFormatJson(content): Ok(text) or Err when it throws
validateAndFormatJson(content) == FormatParsed(JsonParse(content))

\* iterations ? { iterations } : undefined, then options?.iterations ?? default
EffectiveIterations(opt) == IF opt = 0 THEN KDF_ITERATIONS ELSE opt

\* A variant that resolves on close whatever the exit code.
openEditor_AnyCode(ed) == ed.status = "close"

\* openEditor's promise once the child has ended: TRUE when it resolves
openEditor(ed) == ed.status = "close" /\ ed.code = 0

\* the secrets the sample artifacts hold
EditTrees ==
    { JObj(<<>>),
      JObj(<<Entry(KA, JStr(Str(<<"s">>)))>>),
      JObj(<<Entry(KA, JObj(<<Entry(KB, JNum(0))>>)), Entry(KB, PrefixedString)>>) }

\* what the artifact file can hold before relic edit runs
InitialArtifacts ==
    { File(encryptPayload(k, Stringify(d), TEST_ITERATIONS, RandStream(0, LeafCount(d)))) :
          k \in MasterKeys, d \in EditTrees }
    \cup { File(<<LBad>>),
           File(Stringify(JArr(<<>>))),
           File(Pretty(JObj(<<Entry(KA, PrefixedString)>>))),
           File(Pretty(JObj(<<Entry(KA, JNum(0))>>))) }

\* what the editor can leave in the temp file
EditorTexts ==
    { Pretty(d) : d \in EditTrees }
    \cup { Stringify(JObj(<<Entry(KB, JArr(<<JNull>>))>>)),
           <<>>, <<LBad>>, <<P("{"), LStr(KA), P(":")>>,
           Stringify(JArr(<<JNum(1)>>)), Stringify(JStr(Str(<<"s">>))), Stringify(JNull) }

EditStart ==
    /\ masterKey = None
    /\ value = None
    /\ token = None
    /\ altered = "none"
    /\ leafOut = None
    /\ data = None
    /\ encrypted = None
    /\ treeKey = None
    /\ treeOut = None
    /\ walkTree = None
    /\ walkKey = None
    /\ tasks = <<>>
    /\ walkResult = None
    /\ walkFn = None
    /\ order = <<>>
    /\ keyCache = {}
    /\ derives = <<>>
    /\ otherProc = None
    /\ calls = <<>>
    /\ callOuts = None
    /\ payloadCall = None
    /\ payloadData = None
    /\ payloadOut = None
    /\ attempts = 0
    /\ artEnv = Absent
    /\ fileCache = {}
    /\ globalCache = {}
    /\ loads = <<>>
    /\ gitignore = Absent
    /\ output = <<>>
    /\ pc = "idle"
    /\ exitCode = -1
    /\ tempFile = Absent
    /\ editKey = None
    /\ edited = None
    /\ writeBuf = None
    /\ printed = ""
    /\ keyFile \in { Absent, File(<<>>), File(Str(<<"k", "\n">>)) }
    /\ envKey \in { Absent, File(<<>>), File(Str(<<"w">>)) }
    /\ artifact \in InitialArtifacts \cup { Absent }
    /\ artifactDir \in (IF artifact = Absent THEN BOOLEAN ELSE {TRUE})
    /\ artifact0 = artifact
    /\ iterOpt \in { 0, TEST_ITERATIONS }

Exit(code, line) ==
    /\ pc' = "exited"
    /\ exitCode' = code
    /\ printed' = line

\* the plaintext editCommand starts from: "{}" when the artifact is missing
LoadPlaintext(key, art) ==
    IF art = Absent THEN Ok(Stringify(JObj(<<>>))) ELSE decryptPayload(key.v, art.v)

\* createTempFile and writeFileSync of the formatted plaintext, or the exit
\* when validateAndFormatJson throws
WriteTempFile(formatted) ==
    IF formatted.t = "err" THEN
         /\ Exit(1, "Error: Existing secrets file contains invalid JSON")
         /\ UNCHANGED tempFile
    ELSE /\ tempFile' = File(formatted.v)
         /\ pc' = "editing"
         /\ UNCHANGED <<exitCode, printed>>

\* A variant whose catch logs and goes on with the initial "{}".
FormatPlaintext_GoOn(loaded) ==
    WriteTempFile(validateAndFormatJson(
        IF loaded.t = "err" THEN Stringify(JObj(<<>>)) ELSE loaded.v))

\* the catch around decryptPayload exits; otherwise the plaintext is formatted
FormatPlaintext(loaded) ==
    IF loaded.t = "err" THEN
         /\ Exit(1, loaded.v)
         /\ UNCHANGED tempFile
    ELSE WriteTempFile(validateAndFormatJson(loaded.v))

\* getMasterKey exits when no key is found; otherwise the artifact is read
ReadArtifact(key) ==
    IF key = None THEN
         /\ Exit(1, "Error: No master key found.")
         /\ UNCHANGED <<tempFile, editKey>>
    ELSE /\ editKey' = key
         /\ FormatPlaintext(LoadPlaintext(key, artifact))

\* editCommand up to the spawn of the editor
Start ==
    /\ pc = "idle"
    /\ ReadArtifact(getMasterKey(keyFile, envKey))
    /\ UNCHANGED <<artifact, artifactDir, keyFile, envKey, artifact0, edited, writeBuf, iterOpt>>
    /\ UNCHANGED <<libVars, walkVars, sideVars, moreVars>>

\* the editor cannot be spawned: the child emits 'error'
EditorSpawnFails ==
    /\ pc = "editing"
    /\ edited' = [status |-> "error", code |-> -1, left |-> tempFile]
    /\ pc' = "editorDone"
    /\ UNCHANGED <<artifact, artifactDir, keyFile, envKey, tempFile, editKey, exitCode,
                   artifact0, writeBuf, iterOpt, printed>>
    /\ UNCHANGED <<libVars, walkVars, sideVars, moreVars>>

\* the editor runs and closes with an exit code, having rewritten, kept or
\* removed the temp file
EditorCloses ==
    /\ pc = "editing"
    /\ \E code \in {0, 1} :
       \E left \in { File(x) : x \in EditorTexts } \cup { tempFile, Absent } :
         /\ tempFile' = left
         /\ edited' = [status |-> "close", code |-> code, left |-> left]
    /\ pc' = "editorDone"
    /\ UNCHANGED <<artifact, artifactDir, keyFile, envKey, editKey, exitCode,
                   artifact0, writeBuf, iterOpt, printed>>
    /\ UNCHANGED <<libVars, walkVars, sideVars, moreVars>>

\* A variant that opens the editor again when the edited content is invalid.
EncryptEdited_Retry(formatted) ==
    IF formatted.t = "err" THEN
        /\ pc' = "editing"
        /\ UNCHANGED <<tempFile, writeBuf, exitCode, printed>>
    ELSE
        /\ \E seed \in Rand :
             writeBuf' = Some(encryptPayload(editKey.v, formatted.v,
                                EffectiveIterations(iterOpt),
                                RandStream(seed, LeafCount(JsonParse(formatted.v).v))))
        /\ pc' = "commit"
        /\ UNCHANGED <<tempFile, exitCode, printed>>

\* encryptPayload(masterKey, formatted, encryptOptions), or the exit when
\* validateAndFormatJson throws
EncryptEdited(formatted) ==
    IF formatted.t = "err" THEN
        \* process.exit(1) inside the try block ends the process at once
        /\ Exit(1, "Error: Edited content is not valid JSON")
        /\ UNCHANGED <<tempFile, writeBuf>>
    ELSE
        /\ \E seed \in Rand :
             writeBuf' = Some(encryptPayload(editKey.v, formatted.v,
                                EffectiveIterations(iterOpt),
                                RandStream(seed, LeafCount(JsonParse(formatted.v).v))))
        /\ pc' = "commit"
        /\ UNCHANGED <<tempFile, exitCode, printed>>

\* editCommand from the settling of openEditor to the await of encryptPayload
AfterEditor ==
    /\ pc = "editorDone"
    /\ IF ~openEditor(edited) THEN
            \* the rejection leaves the try block: finally, then main().catch
            /\ tempFile' = Absent
            /\ Exit(1, IF edited.status = "error" THEN "Error: Failed to open editor"
                       ELSE "Error: Editor exited with code")
            /\ UNCHANGED writeBuf
       ELSE IF tempFile = Absent THEN
            \* readFileSync throws: finally (unlink fails, ignored), then main().catch
            /\ Exit(1, "Error: ENOENT")
            /\ UNCHANGED <<tempFile, writeBuf>>
       ELSE EncryptEdited(validateAndFormatJson(tempFile.v))
    /\ UNCHANGED <<artifact, artifactDir, keyFile, envKey, editKey, artifact0, edited, iterOpt>>
    /\ UNCHANGED <<libVars, walkVars, sideVars, moreVars>>

\* A variant that does not create the missing directory.
EnsureDir_NoMkdir(dirExists) == dirExists

\* mkdirSync(dir, {recursive: true}) when the directory is missing
EnsureDir(dirExists) == TRUE

\* writeFileSync(absolutePath, artifact): the file is opened with truncation
CommitOpen ==
    /\ pc = "commit"
    /\ artifactDir' = EnsureDir(artifactDir)
    /\ IF artifactDir'
       THEN /\ artifact' = File(<<>>)
            /\ pc' = "writing"
            /\ UNCHANGED <<tempFile, exitCode, printed>>
       ELSE \* ENOENT: finally, then main().catch
            /\ tempFile' = Absent
            /\ Exit(1, "Error: ENOENT")
            /\ UNCHANGED artifact
    /\ UNCHANGED <<keyFile, envKey, editKey, artifact0, edited, writeBuf, iterOpt>>
    /\ UNCHANGED <<libVars, walkVars, sideVars, moreVars>>

\* what a write of text at position 0 leaves in a file that holds old
WrittenOver(text, old) == text \o SubSeq(old, Len(text) + 1, Len(old))

\* writeFileSync: the text is written from position 0 on and the file closed
CommitWrite ==
    /\ pc = "writing"
    /\ artifact' = File(WrittenOver(writeBuf.v, artifact.v))
    /\ pc' = "written"
    /\ UNCHANGED <<artifactDir, keyFile, envKey, tempFile, editKey, exitCode,
                   artifact0, edited, writeBuf, iterOpt, printed>>
    /\ UNCHANGED <<libVars, walkVars, sideVars, moreVars>>

\* console.log, the finally block, and the end of main
Finish ==
    /\ pc = "written"
    /\ tempFile' = Absent
    /\ Exit(0, "Secrets saved")
    /\ UNCHANGED <<artifact, artifactDir, keyFile, envKey, editKey,
                   artifact0, edited, writeBuf, iterOpt>>
    /\ UNCHANGED <<libVars, walkVars, sideVars, moreVars>>

\* the process is stopped from outside (signal, power loss)
Kill ==
    /\ pc \in {"editing", "editorDone", "commit", "writing", "written"}
    /\ pc' = "killed"
    /\ exitCode' = 137
    /\ UNCHANGED <<artifact, artifactDir, keyFile, envKey, tempFile, editKey,
                   artifact0, edited, writeBuf, iterOpt, printed>>
    /\ UNCHANGED <<libVars, walkVars, sideVars, moreVars>>

Next ==
    \/ Start
    \/ EditorSpawnFails
    \/ EditorCloses
    \/ AfterEditor
    \/ CommitOpen
    \/ CommitWrite
    \/ Finish
    \/ Kill

Spec == EditStart /\ [][Next]_vars

\* relic edit when nobody stops the process from outside
TxnNext ==
    \/ Start
    \/ EditorSpawnFails
    \/ EditorCloses
    \/ AfterEditor
    \/ CommitOpen
    \/ CommitWrite
    \/ Finish

\* editCommand leaves the point p of its code after the editor's end
Runs(p) == pc = p /\ pc' \in {"commit", "writing", "written", "exited"}

\* Once the editor has ended, editCommand runs on by itself: the code after
\* the await of openEditor is synchronous but for the await of encryptPayload,
\* whose promise always settles.
TxnSpec ==
    /\ EditStart
    /\ [][TxnNext]_vars
    /\ \A p \in {"editorDone", "commit", "writing", "written"} : WF_pc(Runs(p))

\* Two relic edit processes have been started on the same artifact with the
\* key file of the tests; neither has run yet.
TwoStart ==
    /\ masterKey = None
    /\ value = None
    /\ token = None
    /\ altered = "none"
    /\ leafOut = None
    /\ data = None
    /\ encrypted = None
    /\ treeKey = None
    /\ treeOut = None
    /\ walkTree = None
    /\ walkKey = None
    /\ tasks = <<>>
    /\ walkResult = None
    /\ walkFn = None
    /\ order = <<>>
    /\ keyCache = {}
    /\ derives = <<>>
    /\ calls = <<>>
    /\ callOuts = None
    /\ payloadCall = None
    /\ payloadData = None
    /\ payloadOut = None
    /\ attempts = 0
    /\ artEnv = Absent
    /\ fileCache = {}
    /\ globalCache = {}
    /\ loads = <<>>
    /\ gitignore = Absent
    /\ output = <<>>
    /\ pc = "idle"
    /\ exitCode = -1
    /\ tempFile = Absent
    /\ editKey = None
    /\ edited = None
    /\ writeBuf = None
    /\ printed = ""
    /\ keyFile = File(Str(<<"k", "\n">>))
    /\ envKey = Absent
    /\ artifact \in { Absent,
                      File(encryptPayload(Str(<<"k">>), Stringify(JObj(<<Entry(KA, JStr(Str(<<"s">>)))>>)),
                                          TEST_ITERATIONS, RandStream(0, 1))) }
    /\ artifactDir = TRUE
    /\ artifact0 = artifact
    /\ iterOpt = TEST_ITERATIONS
    /\ otherProc = [id |-> 2, pc |-> "idle", exitCode |-> -1, tempFile |-> Absent, editKey |-> None,
                edited |-> None, writeBuf |-> None, printed |-> ""]

\* The operating system runs the other process: what was said of the running
\* process is now said of the other one.  Each process has its own temp file.
Switch ==
    /\ otherProc # None
    /\ pc' = otherProc.pc
    /\ exitCode' = otherProc.exitCode
    /\ tempFile' = otherProc.tempFile
    /\ editKey' = otherProc.editKey
    /\ edited' = otherProc.edited
    /\ writeBuf' = otherProc.writeBuf
    /\ printed' = otherProc.printed
    /\ otherProc' = [id |-> 3 - otherProc.id, pc |-> pc, exitCode |-> exitCode, tempFile |-> tempFile,
                 editKey |-> editKey, edited |-> edited, writeBuf |-> writeBuf,
                 printed |-> printed]
    /\ UNCHANGED <<artifact, artifactDir, keyFile, envKey, artifact0, iterOpt, keyCache, derives>>
    /\ UNCHANGED <<libVars, walkVars, moreVars>>

\* two relic edit processes, their steps interleaved
TwoNext ==
    \/ Start
    \/ EditorSpawnFails
    \/ EditorCloses
    \/ AfterEditor
    \/ CommitOpen
    \/ CommitWrite
    \/ Finish
    \/ Switch

TwoSpec == TwoStart /\ [][TwoNext]_vars

----------------------------------------------------------------------------
(* runtime.ts: createRelic *)

MISSING_ARTIFACT == "RELIC_ERR_MISSING_ARTIFACT"
MISSING_MASTER_KEY == "RELIC_ERR_MISSING_MASTER_KEY"
KEY_NOT_FOUND == "RELIC_ERR_KEY_NOT_FOUND"
\* what readFileSync throws for a missing file (no RelicError)
ENOENT == "ENOENT"

ARTIFACT_FILE == "config/relic.enc"
KEY_FILE == "config/relic.key"

\* a Map as the set of its entries
MapHas(m, k) == \E e \in m : e.k = k
MapGet(m, k) == (CHOOSE e \in m : e.k = k).v
MapSet(m, k, v) == { e \in m : e.k # k } \cup { [k |-> k, v |-> v] }

\* the file at a path, or Absent; without a file system (Edge) every file
\* is Absent
OnDisk(path) ==
    IF path = KEY_FILE THEN keyFile
    ELSE IF path = ARTIFACT_FILE THEN artifact
    ELSE Absent

\* a string option or variable that is set and not ""
Truthy(x) == x \notin {None, Absent} /\ x.v # <<>>

\* what a read leaves in fileCache
Cached(fc, path) ==
    IF MapHas(fc, path) \/ OnDisk(path) = Absent THEN fc
    ELSE MapSet(fc, path, OnDisk(path).v)

\* readArtifactFile(filePath): the content, or the error of readFileSync
readArtifactFile(fc, path) ==
    [out |-> IF MapHas(fc, path) THEN Ok(MapGet(fc, path))
             ELSE IF OnDisk(path) = Absent THEN Err(ENOENT)
             ELSE Ok(OnDisk(path).v),
     fc |-> Cached(fc, path)]

\* tryReadArtifactFile(filePath): the content, or null
tryReadArtifactFile(fc, path) ==
    IF MapHas(fc, path) THEN Some(MapGet(fc, path))
    ELSE IF OnDisk(path) = Absent THEN None
    ELSE Some(OnDisk(path).v)

\* getArtifact from the default file on
DefaultArtifact(fromFile, fc) ==
    [out |-> IF Truthy(fromFile) THEN Ok(fromFile.v)
             ELSE IF Truthy(artEnv) THEN Ok(artEnv.v)
             ELSE Err(MISSING_ARTIFACT),
     fc |-> fc]

\* getArtifact(): the artifact string or the error, and fileCache afterwards
getArtifact(opts, fc) ==
    IF Truthy(opts.artifact) THEN [out |-> Ok(opts.artifact.v), fc |-> fc]
    ELSE IF opts.artifactPath # None THEN readArtifactFile(fc, opts.artifactPath.v)
    ELSE DefaultArtifact(tryReadArtifactFile(fc, ARTIFACT_FILE), Cached(fc, ARTIFACT_FILE))

\* A variant that asks the environment before the key file.
KeyFromFile_EnvFirst(keyFromFile, fc) ==
    [out |-> IF Truthy(envKey) THEN Ok(envKey.v)
             ELSE IF Truthy(keyFromFile) THEN Ok(Trim(keyFromFile.v))
             ELSE Err(MISSING_MASTER_KEY),
     fc |-> fc]

\* getMasterKey of the runtime from the key file on
KeyFromFile(keyFromFile, fc) ==
    [out |-> IF Truthy(keyFromFile) THEN Ok(Trim(keyFromFile.v))
             ELSE IF Truthy(envKey) THEN Ok(envKey.v)
             ELSE Err(MISSING_MASTER_KEY),
     fc |-> fc]

\* getMasterKey() of the runtime: the key or the error, and fileCache
\* afterwards
runtimeGetMasterKey(opts, fc) ==
    IF Truthy(opts.masterKey) THEN [out |-> Ok(opts.masterKey.v), fc |-> fc]
    ELSE KeyFromFile(tryReadArtifactFile(fc, KEY_FILE), Cached(fc, KEY_FILE))

\* `${masterKey}:${artifact}`
CacheKey(mk, art) == mk \o <<Chr(":")>> \o art

\* the names every object inherits from Object.prototype
ObjectPrototype ==
    { Str(<<"c", "o", "n", "s", "t", "r", "u", "c", "t", "o", "r">>),
      Str(<<"t", "o", "S", "t", "r", "i", "n", "g">>),
      Str(<<"v", "a", "l", "u", "e", "O", "f">>) }

\* key in secrets: own and inherited properties
In(k, secrets) == HasKey(secrets, k) \/ k \in ObjectPrototype

\* secrets[key]
Member(secrets, k) ==
    IF HasKey(secrets, k) THEN Get(secrets, k) ELSE [t |-> "inherited", v |-> k]

\* what get, has, keys and load return once load() has settled
Returned(fn, arg, secrets) ==
    IF secrets.t = "err" THEN secrets
    ELSE CASE fn = "load" -> secrets
           [] fn = "keys" -> Ok(ObjectKeys(secrets.v.v))
           [] fn = "has" -> Ok(In(arg.v, secrets.v.v))
           [] fn = "get" -> IF ~In(arg.v, secrets.v.v) THEN Err(KEY_NOT_FOUND)
                            ELSE Ok(Member(secrets.v.v, arg.v))

\* createRelic(options): options that are not given are None
Options(mk, art, path, cache) ==
    [masterKey |-> mk, artifact |-> art, artifactPath |-> path, cache |-> cache]

\* the secrets of the sample artifacts
SampleSecrets == JObj(<<Entry(KA, JStr(Str(<<"s">>)))>>)

\* the artifact relic edit writes for the sample secrets
SampleArtifact(k, seed) ==
    encryptPayload(k, Stringify(SampleSecrets), TEST_ITERATIONS,
                   RandStream(seed, LeafCount(SampleSecrets)))

\* the createRelic calls of the program; options?.cache ?? true
Instances ==
    { [id |-> 1, opts |-> Options(None, None, None, TRUE)],
      [id |-> 2, opts |-> Options(Some(Str(<<"k">>)), Some(SampleArtifact(Str(<<"k">>), 0)), None, TRUE)],
      [id |-> 3, opts |-> Options(Some(Str(<<"k">>)), Some(SampleArtifact(Str(<<"k">>), 0)), None, TRUE)],
      [id |-> 4, opts |-> Options(Some(Str(<<"k">>)), Some(SampleArtifact(Str(<<"k">>), 0)), None, FALSE)],
      [id |-> 5, opts |-> Options(Some(<<>>), Some(<<>>), Some(ARTIFACT_FILE), TRUE)] }

\* a master key that holds a colon
ColonKey == Str(<<"k", ":", "w">>)

\* createRelic calls whose master key and artifact strings share their
\* concatenation: "k:w" with the artifact text, and "k" with "w:" and the
\* artifact text; and a call with a pair of its own
ColonInstances ==
    { [id |-> 6, opts |-> Options(Some(ColonKey), Some(SampleArtifact(ColonKey, 0)), None, TRUE)],
      [id |-> 7, opts |-> Options(Some(Str(<<"k">>)),
                                  Some(Str(<<"w", ":">>) \o SampleArtifact(ColonKey, 0)),
                                  None, TRUE)],
      [id |-> 8, opts |-> Options(Some(Str(<<"w">>)), Some(SampleArtifact(Str(<<"w">>), 0)), None, TRUE)] }

\* the options an instance was created with
OptionsOf(id) == (CHOOSE inst \in Instances \cup ColonInstances : inst.id = id).opts

\* the instances that get, has and keys are called on
AccessInstances == { inst \in Instances : inst.id \in {1, 2, 4} }

\* the keys asked of get and has
AccessKeys == { KA, Str(<<"c">>), Str(<<"t", "o", "S", "t", "r", "i", "n", "g">>) }

\* the most calls of a run of load() alone, and of a run of the accessors
MaxLoads == 3
MaxAccess == 2

\* the process has made no call; the files and the environment are any of
\* the samples
RuntimeStart ==
    /\ masterKey = None
    /\ value = None
    /\ token = None
    /\ altered = "none"
    /\ leafOut = None
    /\ data = None
    /\ encrypted = None
    /\ treeKey = None
    /\ treeOut = None
    /\ walkTree = None
    /\ walkKey = None
    /\ tasks = <<>>
    /\ walkResult = None
    /\ walkFn = None
    /\ order = <<>>
    /\ keyCache = {}
    /\ derives = <<>>
    /\ otherProc = None
    /\ calls = <<>>
    /\ callOuts = None
    /\ payloadCall = None
    /\ payloadData = None
    /\ payloadOut = None
    /\ attempts = 0
    /\ fileCache = {}
    /\ globalCache = {}
    /\ loads = <<>>
    /\ gitignore = Absent
    /\ output = <<>>
    /\ pc = "idle"
    /\ exitCode = -1
    /\ tempFile = Absent
    /\ editKey = None
    /\ edited = None
    /\ writeBuf = None
    /\ printed = ""
    /\ iterOpt = 0
    /\ artifactDir = TRUE
    /\ keyFile \in { Absent, File(Str(<<"\n">>)), File(Str(<<"k", "\n">>)) }
    /\ envKey \in { Absent, File(Str(<<"w">>)) }
    /\ artifact \in { Absent, File(SampleArtifact(Str(<<"k">>), 1)) }
    /\ artifact0 = artifact
    /\ artEnv \in { Absent, File(SampleArtifact(Str(<<"w">>), 0)) }

\* load() through getArtifact and getMasterKey: a failed getArtifact rejects
\* before the key is looked for
WithKey(art, k) == [art |-> art, key |-> k.out, fc |-> k.fc]
Resolved(opts, a) ==
    IF a.out.t = "err" THEN [art |-> a.out, key |-> None, fc |-> a.fc]
    ELSE WithKey(a.out, runtimeGetMasterKey(opts, a.fc))

\* shouldCache && globalCache.has(cacheKey): the cached object, or None
CacheLookup(shouldCache, ck) ==
    IF shouldCache /\ MapHas(globalCache, ck) THEN Some(MapGet(globalCache, ck)) ELSE None

\* the error that ends load() before the cache check, or None
Failed(r) == IF r.art.t = "err" THEN r.art ELSE IF r.key.t = "err" THEN r.key ELSE None

\* the call as it stands after the cache check
Checked(inst, fn, arg, r, failed, found) ==
    [inst |-> inst.id, fn |-> fn, arg |-> arg,
     art |-> r.art, key |-> r.key,
     after |-> { i \in 1..Len(loads) : loads[i].phase = "done" },
     phase |-> IF failed # None \/ found # None THEN "done" ELSE "decrypting",
     hit |-> found # None,
     decrypted |-> FALSE,
     out |-> IF failed # None THEN failed
             ELSE IF found # None THEN Returned(fn, arg, Ok(found.v))
             ELSE None,
     secrets |-> IF failed # None THEN failed
                 ELSE IF found # None THEN Ok(found.v)
                 ELSE None]

Looked(inst, fn, arg, r, failed) ==
    Checked(inst, fn, arg, r, failed,
            IF failed # None THEN None
            ELSE CacheLookup(inst.opts.cache, CacheKey(r.key.v, r.art.v)))

Began(inst, fn, arg, r) ==
    /\ fileCache' = r.fc
    /\ loads' = Append(loads, Looked(inst, fn, arg, r, Failed(r)))

\* a call of load, get, has or keys up to the await of decryptAndParse
LoadStart(inst, fn, arg, max) ==
    /\ Len(loads) < max
    /\ Began(inst, fn, arg, Resolved(inst.opts, getArtifact(inst.opts, fileCache)))
    /\ UNCHANGED <<artEnv, globalCache>>
    /\ UNCHANGED <<libVars, walkVars, sideVars, editVars, pairVars, payloadVars, cliVars>>

\* the call once decryptAndParse has settled with secrets
Settled(call, secrets) ==
    [call EXCEPT !.phase = "done", !.decrypted = TRUE, !.secrets = secrets,
                 !.out = Returned(call.fn, call.arg, secrets)]

\* the fresh object decryptAndParse resolves with, or its error
Fresh(i, result) == IF result.t = "err" THEN result ELSE Ok([id |-> i, v |-> result.v])

Finished(i, secrets) ==
    /\ loads' = [loads EXCEPT ![i] = Settled(@, secrets)]
    /\ globalCache' =
         IF secrets.t = "ok" /\ OptionsOf(loads[i].inst).cache
         THEN MapSet(globalCache, CacheKey(loads[i].key.v, loads[i].art.v), secrets.v)
         ELSE globalCache

\* decryptAndParse settles: the secrets are cached and returned
LoadFinish ==
    /\ \E i \in 1..Len(loads) :
         /\ loads[i].phase = "decrypting"
         /\ Finished(i, Fresh(i, decryptAndParse(loads[i].key.v, loads[i].art.v)))
    /\ UNCHANGED <<artEnv, fileCache>>
    /\ UNCHANGED <<libVars, walkVars, sideVars, editVars, pairVars, payloadVars, cliVars>>

\* relic.load()
Load == \E inst \in Instances : LoadStart(inst, "load", None, MaxLoads)
\* relic.get(key)
GetCall == \E inst \in AccessInstances, k \in AccessKeys : LoadStart(inst, "get", Some(k), MaxAccess)
\* relic.has(key)
HasCall == \E inst \in AccessInstances, k \in AccessKeys : LoadStart(inst, "has", Some(k), MaxAccess)
\* relic.keys()
KeysCall == \E inst \in AccessInstances : LoadStart(inst, "keys", None, MaxAccess)

\* relic.load() on an instance whose master key or artifact holds a colon
ColonLoad == \E inst \in ColonInstances : LoadStart(inst, "load", None, MaxLoads)

ColonNext ==
    \/ ColonLoad
    \/ LoadFinish

ColonSpec == RuntimeStart /\ [][ColonNext]_vars

RuntimeNext ==
    \/ Load
    \/ LoadFinish

RuntimeSpec == RuntimeStart /\ [][RuntimeNext]_vars

AccessNext ==
    \/ GetCall
    \/ HasCall
    \/ KeysCall
    \/ LoadFinish

AccessSpec == RuntimeStart /\ [][AccessNext]_vars
----------------------------------------------------------------------------
(* deriveKey with its cache, call by call *)

\* String(n) of a count
RECURSIVE Decimal(_)
Decimal(n) ==
    LET digit == Chr(<<"0", "1", "2", "3", "4", "5", "6", "7", "8", "9">>[(n % 10) + 1])
    IN  IF n < 10 THEN <<digit>> ELSE Append(Decimal(n \div 10), digit)

\* A variant of the cache key without the count.
KeyCacheKey_NoCount(mk, salt, iterations) ==
    mk \o <<Chr(":")>> \o encodeBase64(salt)

\* `${masterKey}:${encodeBase64(salt)}:${iterations}`
KeyCacheKey(mk, salt, iterations) ==
    mk \o <<Chr(":")>> \o encodeBase64(salt) \o <<Chr(":")>> \o Decimal(iterations)

\* the master keys deriveKey is called with: one without a colon, and one
\* that reads like the cache key of a call with the other
DeriveKeys ==
    { Str(<<"k">>),
      KeyCacheKey(Str(<<"k">>), RandSalt(0), TEST_ITERATIONS) }

\* the (masterKey, salt, iterations) deriveKey is called with
DeriveTuples ==
    { <<mk, RandSalt(0), it>> : mk \in DeriveKeys, it \in Iterations }
    \cup { <<mk, RandSalt(1), TEST_ITERATIONS>> : mk \in DeriveKeys }

\* the most deriveKey calls of a run
MaxDerives == 3

\* the call after keyCache.get(cacheKey)
Request(mk, salt, iterations, ck) ==
    [mk |-> mk, salt |-> salt, iterations |-> iterations, ck |-> ck,
     after |-> { i \in 1..Len(derives) : derives[i].phase = "done" },
     hit |-> MapHas(keyCache, ck),
     phase |-> IF MapHas(keyCache, ck) THEN "done" ELSE "deriving",
     out |-> IF MapHas(keyCache, ck) THEN Ok(MapGet(keyCache, ck)) ELSE None]

\* deriveKey(masterKey, salt, iterations) up to the await of importKey
DeriveStart ==
    /\ Len(derives) < MaxDerives
    /\ \E x \in DeriveTuples :
         derives' = Append(derives, Request(x[1], x[2], x[3], KeyCacheKey(x[1], x[2], x[3])))
    /\ UNCHANGED <<keyCache, otherProc>>
    /\ UNCHANGED <<libVars, walkVars, editVars, moreVars>>

\* the CryptoKey object the i-th call's PBKDF2 derivation resolves with
NewKey(i, key) == IF key.t = "err" THEN key ELSE Ok([id |-> i, key |-> key.v])

\* A variant that does not store the key.
Stored_Never(kc, ck, key) == kc

\* keyCache.set(cacheKey, key) unless the derivation has thrown
Stored(kc, ck, key) == IF key.t = "ok" THEN MapSet(kc, ck, key.v) ELSE kc

\* importKey and deriveKey have settled: the key is cached and returned
DeriveFinish ==
    /\ \E i \in 1..Len(derives) :
         /\ derives[i].phase = "deriving"
         /\ derives' = [derives EXCEPT
               ![i].phase = "done",
               ![i].out = NewKey(i, deriveKey(derives[i].mk, derives[i].salt, derives[i].iterations))]
         /\ keyCache' = Stored(keyCache, derives[i].ck,
                               NewKey(i, deriveKey(derives[i].mk, derives[i].salt, derives[i].iterations)))
    /\ UNCHANGED otherProc
    /\ UNCHANGED <<libVars, walkVars, editVars, moreVars>>

DeriveNext ==
    \/ DeriveStart
    \/ DeriveFinish

DeriveSpec == Init /\ [][DeriveNext]_vars

----------------------------------------------------------------------------
(* cli/index.ts: relic --print-keys and relic init *)

\* literal text of a message
Txt(s) == [t |-> "txt", v |-> s]
\* one console.log (stdout) or console.error (stderr)
Line(fd, text) == [fd |-> fd, text |-> text]

\* errors.ts: the message of a RelicError
Message(code) ==
    CASE code = DECRYPT_FAILED -> "Failed to decrypt artifact - wrong key or corrupted data"
      [] code = INVALID_JSON -> "Decrypted artifact is not valid JSON"
      [] OTHER -> code

\* console.error(`Error: ${err.message} (${err.code})`)
ErrorLine(code) ==
    Line("stderr", <<Txt("Error: "), Txt(Message(code)), Txt(" ("), Txt(code), Txt(")")>>)

\* A variant that prints each value next to its key.
Listing_WithValues(d) ==
    <<Line("stdout", <<Txt("Secret keys:")>>)>>
    \o [i \in 1..Len(d.v) |->
           Line("stdout", <<Txt("  - ")>> \o d.v[i].k \o <<Txt(": ")>> \o Stringify(d.v[i].v))]

\* "Secret keys:" and one line for each of Object.keys(data)
Listing(d) ==
    <<Line("stdout", <<Txt("Secret keys:")>>)>>
    \o [i \in 1..Len(d.v) |-> Line("stdout", <<Txt("  - ")>> \o ObjectKeys(d)[i])]

\* printKeysCommand from decryptPayload on
PrintListing(plaintext) ==
    IF plaintext.t = "err" THEN
         /\ output' = <<ErrorLine(plaintext.v)>>
         /\ Exit(1, "Error: ")
    ELSE /\ output' = Listing(JsonParse(plaintext.v).v)
         /\ Exit(0, "Secret keys:")

\* printKeysCommand once getMasterKey has returned or exited
PrintKeys(key) ==
    IF key = None THEN
         /\ output' = <<Line("stderr", <<Txt("Error: No master key found.")>>)>>
         /\ Exit(1, "Error: No master key found.")
         /\ UNCHANGED editKey
    ELSE /\ editKey' = key
         /\ IF artifact = Absent
            THEN /\ output' = <<Line("stderr", <<Txt("Error: Artifact file not found: "),
                                                 Txt(ARTIFACT_FILE)>>)>>
                 /\ Exit(1, "Error: Artifact file not found: ")
            ELSE PrintListing(decryptPayload(key.v, artifact.v))

\* relic --print-keys
PrintKeysCommand ==
    /\ pc = "idle"
    /\ PrintKeys(getMasterKey(keyFile, envKey))
    /\ UNCHANGED <<artifact, artifactDir, keyFile, envKey, tempFile, artifact0, edited,
                   writeBuf, iterOpt, gitignore>>
    /\ UNCHANGED <<libVars, walkVars, sideVars, pairVars, payloadVars, runtimeVars>>

\* generateKey(): randomBytes(32).toString("base64")
generateKey(r) == encodeBase64([i \in 1..32 |-> Byte((13 * r + i) % 256)])

\* addToGitignore(pattern): .gitignore afterwards; each line is one unit
addToGitignore(gi, pattern) ==
    IF gi = Absent THEN File(<<Txt(pattern), Chr("\n")>>)
    ELSE IF \E i \in 1..Len(gi.v) : gi.v[i] = Txt(pattern) THEN gi
    ELSE File(gi.v
              \o (IF gi.v # <<>> /\ gi.v[Len(gi.v)] # Chr("\n") THEN <<Chr("\n")>> ELSE <<>>)
              \o <<Txt(pattern), Chr("\n")>>)

\* the last lines of the full initialization
GitignoreLines(gi) ==
    <<Line("stdout", IF addToGitignore(gi, KEY_FILE) # gi
                     THEN <<Txt("Added "), Txt(KEY_FILE), Txt(" to .gitignore")>>
                     ELSE <<Txt(KEY_FILE), Txt(" already in .gitignore")>>),
      Line("stdout", <<Txt("Setup complete! You can now:")>>)>>

\* neither file exists: key file, artifact and .gitignore are written
FullInit(key) ==
    /\ artifactDir' = TRUE
    /\ keyFile' = File(key \o <<Chr("\n")>>)
    /\ artifact' = File(encryptPayload(key, Pretty(JObj(<<>>)), EffectiveIterations(iterOpt), <<>>))
    /\ gitignore' = addToGitignore(gitignore, KEY_FILE)
    /\ output' = <<Line("stdout", <<Txt("Generated master key: "), Txt(KEY_FILE)>>),
                   Line("stdout", <<Txt("Created encrypted secrets: "), Txt(ARTIFACT_FILE)>>)>>
                 \o GitignoreLines(gitignore)
    /\ Exit(0, "Setup complete! You can now:")

\* the key file exists and the artifact does not: the artifact is created
ArtifactInit(key) ==
    /\ artifactDir' = TRUE
    /\ artifact' = File(encryptPayload(key, Pretty(JObj(<<>>)), EffectiveIterations(iterOpt), <<>>))
    /\ output' = <<Line("stdout", <<Txt("Created encrypted secrets: "), Txt(ARTIFACT_FILE)>>),
                   Line("stdout", <<Txt("  (using existing key from "), Txt(KEY_FILE), Txt(")")>>)>>
    /\ Exit(0, "  (using existing key from ")
    /\ UNCHANGED <<keyFile, gitignore>>

\* relic init
InitCommand ==
    /\ pc = "idle"
    /\ CASE artifact # Absent /\ keyFile = Absent ->
              /\ output' = <<Line("stdout", <<Txt("Artifact file exists: "), Txt(ARTIFACT_FILE)>>),
                             Line("stdout", <<Txt("Key file not found: "), Txt(KEY_FILE)>>),
                             Line("stdout", <<Txt("No initialization needed for this setup.")>>)>>
              /\ Exit(0, "No initialization needed for this setup.")
              /\ UNCHANGED <<artifact, artifactDir, keyFile, gitignore>>
         [] artifact # Absent /\ keyFile # Absent ->
              /\ output' = <<Line("stdout", <<Txt("Relic is already initialized.")>>),
                             Line("stdout", <<Txt("  Key file: "), Txt(KEY_FILE)>>),
                             Line("stdout", <<Txt("  Artifact: "), Txt(ARTIFACT_FILE)>>)>>
              /\ Exit(0, "  Artifact: ")
              /\ UNCHANGED <<artifact, artifactDir, keyFile, gitignore>>
         [] artifact = Absent /\ keyFile # Absent -> ArtifactInit(Trim(keyFile.v))
         [] artifact = Absent /\ keyFile = Absent -> \E r \in Rand : FullInit(generateKey(r))
    /\ UNCHANGED <<envKey, tempFile, editKey, artifact0, edited, writeBuf, iterOpt>>
    /\ UNCHANGED <<libVars, walkVars, sideVars, pairVars, payloadVars, runtimeVars>>

\* what .gitignore can hold
Gitignores ==
    { Absent, File(<<Txt(KEY_FILE), Chr("\n")>>), File(<<Txt("node_modules")>>) }

\* no command has run; the files and the environment are any of the samples
CliStart ==
    /\ masterKey = None
    /\ value = None
    /\ token = None
    /\ altered = "none"
    /\ leafOut = None
    /\ data = None
    /\ encrypted = None
    /\ treeKey = None
    /\ treeOut = None
    /\ walkTree = None
    /\ walkKey = None
    /\ tasks = <<>>
    /\ walkResult = None
    /\ walkFn = None
    /\ order = <<>>
    /\ keyCache = {}
    /\ derives = <<>>
    /\ otherProc = None
    /\ calls = <<>>
    /\ callOuts = None
    /\ payloadCall = None
    /\ payloadData = None
    /\ payloadOut = None
    /\ attempts = 0
    /\ artEnv = Absent
    /\ fileCache = {}
    /\ globalCache = {}
    /\ loads = <<>>
    /\ output = <<>>
    /\ pc = "idle"
    /\ exitCode = -1
    /\ tempFile = Absent
    /\ editKey = None
    /\ edited = None
    /\ writeBuf = None
    /\ printed = ""
    /\ keyFile \in { Absent, File(<<>>), File(Str(<<"\n">>)), File(Str(<<"k", "\n">>)) }
    /\ envKey \in { Absent, File(<<>>), File(Str(<<"w">>)) }
    /\ artifact \in InitialArtifacts \cup { Absent }
    /\ artifactDir \in (IF artifact = Absent /\ keyFile = Absent THEN BOOLEAN ELSE {TRUE})
    /\ artifact0 = artifact
    /\ iterOpt \in { 0, TEST_ITERATIONS }
    /\ gitignore \in Gitignores

InitSpec == CliStart /\ [][InitCommand]_vars

PrintSpec == CliStart /\ [][PrintKeysCommand]_vars

\* the command has ended and relic is started again: a new process finds
\* the files as the last one left them
NextCommand ==
    /\ pc = "exited"
    /\ pc' = "idle"
    /\ exitCode' = -1
    /\ tempFile' = Absent
    /\ editKey' = None
    /\ edited' = None
    /\ writeBuf' = None
    /\ printed' = ""
    /\ output' = <<>>
    /\ artifact0' = artifact
    /\ UNCHANGED <<artifact, artifactDir, keyFile, envKey, iterOpt, gitignore>>
    /\ UNCHANGED <<libVars, walkVars, sideVars, pairVars, payloadVars, runtimeVars>>

\* relic init and relic edit, one command after the other
LifeNext ==
    \/ InitCommand
    \/ Start
    \/ EditorSpawnFails
    \/ EditorCloses
    \/ AfterEditor
    \/ CommitOpen
    \/ CommitWrite
    \/ Finish
    \/ NextCommand

LifeSpec == CliStart /\ [][LifeNext]_vars

----------------------------------------------------------------------------
(* key resolution of the CLI and of the runtime in one environment *)

\* relic.load() in a run that also resolves the key on the command line
KeyLoad ==
    \E inst \in { x \in Instances : x.id \in {1, 2, 5} } : LoadStart(inst, "load", None, MaxAccess)

KeyNext ==
    \/ PrintKeysCommand
    \/ KeyLoad
    \/ LoadFinish

KeySpec == RuntimeStart /\ [][KeyNext]_vars

----------------------------------------------------------------------------
(* Claims about the codec and the tree walker *)

RECURSIVE Leaves(_)
RECURSIVE LeavesOfEntries(_)
\* the non-mapping values of a tree
Leaves(v) == IF IsMapping(v) THEN LeavesOfEntries(v.v) ELSE {v}
LeavesOfEntries(es) ==
    IF es = <<>> THEN {} ELSE Leaves(Head(es).v) \cup LeavesOfEntries(Tail(es))

HasNestedMapping(d) == \E i \in 1..Len(d.v) : IsMapping(d.v[i].v)

\* C1: decryptSecrets(K, encryptSecrets(K, T)) is deeply equal to T, for trees
\* with nested mappings and leaves of every JSON type, including string leaves
\* that begin with the token prefix.
C1_TreeRoundTrip ==
    (treeOut # None /\ treeKey = masterKey) => treeOut = Ok(data)

C1_Witness ==
    /\ treeOut # None /\ treeKey = masterKey
    /\ treeOut = Ok(data)
    /\ HasNestedMapping(data)
    /\ PrefixedString \in Leaves(data)
    /\ JNum(0) \in Leaves(data)

\* C5: with any master key other than the encrypting one, decryptValue fails
\* with DECRYPT_FAILED on every leaf token of an encrypted tree, and
\* decryptSecrets on a tree that has a leaf fails with DECRYPT_FAILED.
C5_WrongKey ==
    encrypted # None =>
      /\ \A k \in MasterKeys \ {masterKey} : \A tok \in Leaves(encrypted) :
            decryptValue(k, tok) = Err(DECRYPT_FAILED)
      /\ (treeOut # None /\ treeKey # masterKey /\ LeafCount(data) > 0)
            => treeOut = Err(DECRYPT_FAILED)

C5_Witness ==
    /\ treeOut # None /\ treeKey # masterKey
    /\ HasNestedMapping(data)
    /\ LeafCount(data) >= 2
    /\ treeOut = Err(DECRYPT_FAILED)

\* C6: after a change of one byte of the salt, IV or ciphertext-plus-tag
\* section, decryptValue with the correct master key fails with DECRYPT_FAILED.
C6_Tamper ==
    (altered # "none" /\ leafOut # None /\ leafOut.key = masterKey)
        => leafOut.out = Err(DECRYPT_FAILED)

C6_Witness ==
    /\ altered = "iv" /\ leafOut # None /\ leafOut.key = masterKey
    /\ leafOut.out = Err(DECRYPT_FAILED)

\* C9: decryptValue(K, encryptValue(K, v)) = v with the same JSON type, for
\* every leaf value including "", 0, false, null and [].
C9_ValueRoundTrip ==
    (altered = "none" /\ leafOut # None /\ leafOut.key = masterKey)
        => leafOut.out = Ok(value)

C9_Witness ==
    /\ altered = "none" /\ leafOut # None /\ leafOut.key = masterKey
    /\ value = JNum(0)
    /\ leafOut.out = Ok(JNum(0))

RECURSIVE SameShape(_, _)
\* two trees with the same keys in the same order at every level
SameShape(x, y) ==
    IF IsMapping(x) # IsMapping(y) THEN FALSE
    ELSE IF ~IsMapping(x) THEN TRUE
    ELSE /\ ObjectKeys(x) = ObjectKeys(y)
         /\ \A i \in 1..Len(x.v) : SameShape(x.v[i].v, y.v[i].v)

\* C10: decryptSecrets is fail-closed. When the decoding of any leaf has
\* failed, at any depth and in any completion order, the caller has received
\* an error; a tree is received only when every leaf decoded, and it is the
\* complete tree.
C10_FailClosed ==
    walkTree # None =>
      /\ (\E p \in DOMAIN tasks : tasks[p] # None /\ tasks[p].t = "err")
            => (walkResult # None /\ walkResult.t = "err")
      /\ (walkResult # None /\ walkResult.t = "ok")
            => /\ \A p \in DOMAIN tasks : tasks[p] # None /\ tasks[p].t = "ok"
               /\ SameShape(walkResult.v, walkTree)
               /\ walkResult = decryptSecrets(walkKey, walkTree)
      /\ (\A p \in DOMAIN tasks : tasks[p] # None)
            => (walkResult # None /\ walkResult.t = decryptSecrets(walkKey, walkTree).t)

\* a nested leaf failed after a sibling had already decoded
C10_Witness ==
    /\ walkTree # None
    /\ walkResult # None /\ walkResult.t = "err"
    /\ \E p \in DOMAIN tasks : Len(p) = 2 /\ tasks[p] # None /\ tasks[p].t = "err"
    /\ \E p \in DOMAIN tasks : tasks[p] # None /\ tasks[p].t = "ok"

----------------------------------------------------------------------------
(* Claims about relic edit *)

\* the edited content does not pass validateAndFormatJson
Rejected(left) == left = Absent \/ validateAndFormatJson(left.v).t = "err"

\* C2: with an existing valid artifact, once the editor could not be spawned,
\* exited non-zero, or left content that is not a non-array JSON object, the
\* artifact file holds its contents of before the transaction, in every later
\* state.
C2_AbortKeepsArtifact ==
    (/\ artifact0 # Absent
     /\ edited # None
     /\ (edited.status = "error" \/ edited.code # 0 \/ Rejected(edited.left)))
        => artifact = artifact0

\* the editor exited 0 and left a JSON array
C2_Witness ==
    /\ pc = "exited" /\ exitCode = 1
    /\ artifact0 # Absent
    /\ edited # None /\ edited.status = "close" /\ edited.code = 0
    /\ edited.left = File(Stringify(JArr(<<JNum(1)>>)))
    /\ artifact = artifact0

\* C3: no terminal state of the transaction leaves the temp file on disk.
C3_TempFileRemoved ==
    pc = "exited" => tempFile = Absent

\* C4: the artifact file holds its complete contents of before the transaction
\* or the complete newly encrypted artifact, at every point.
C4_OldOrNew ==
    \/ artifact = artifact0
    \/ writeBuf # None /\ artifact = File(writeBuf.v)

\* C7: when the editor exited 0 and left a non-array JSON object, the
\* transaction ends with exit code 0 and the artifact file parses and decrypts
\* with the master key to exactly that object, whether or not the artifact and
\* its directory existed before.
C7_CommitsEdited ==
    (/\ pc = "exited"
     /\ edited # None /\ edited.status = "close" /\ edited.code = 0
     /\ ~Rejected(edited.left))
        => /\ exitCode = 0
           /\ artifactDir /\ artifact # Absent
           /\ editKey = getMasterKey(keyFile, envKey)
           /\ JsonParse(artifact.v).ok
           /\ decryptSecrets(editKey.v, JsonParse(artifact.v).v)
                  = Ok(JsonParse(edited.left.v).v)

\* a nested object was saved where no artifact existed
C7_Witness ==
    /\ pc = "exited" /\ exitCode = 0
    /\ artifact0 = Absent /\ artifact # Absent
    /\ edited # None /\ edited.left # Absent
    /\ edited.left.v = Pretty(JObj(<<Entry(KA, JObj(<<Entry(KB, JNum(0))>>)),
                                    Entry(KB, PrefixedString)>>))

\* no master key is found, or the existing artifact does not parse or decrypt
LoadFails(key) == key = None \/ LoadPlaintext(key, artifact0).t = "err"

\* C8: when the master key cannot be resolved or the existing artifact fails
\* to parse or decrypt, the transaction has exited non-zero as soon as it has
\* left its start, with no temp file created, no editor invoked and the
\* artifact as it was.
C8_AbortBeforeEdit ==
    (pc # "idle" /\ LoadFails(getMasterKey(keyFile, envKey)))
        => /\ pc = "exited" /\ exitCode = 1
           /\ tempFile = Absent
           /\ edited = None
           /\ artifact = artifact0

\* a key was found and the existing artifact did not decrypt with it
C8_Witness ==
    /\ pc = "exited" /\ exitCode = 1
    /\ editKey # None
    /\ artifact0 # Absent /\ JsonParse(artifact0.v).ok
    /\ edited = None /\ tempFile = Absent

----------------------------------------------------------------------------
(* Claims about the shape of encrypted trees *)

RECURSIVE Tokenized(_, _)
\* y has the keys of x at every level, a mapping where x has a mapping and a
\* single token where x has any other value
Tokenized(x, y) ==
    IF IsMapping(x)
    THEN /\ IsMapping(y)
         /\ ObjectKeys(x) = ObjectKeys(y)
         /\ \A i \in 1..Len(x.v) : Tokenized(x.v[i].v, y.v[i].v)
    ELSE isEncryptedValue(y)

\* C11: encryptSecrets returns a tree with exactly the input's keys at every
\* level, where every nested mapping is a mapping and every other value, each
\* array as one whole, is a single string token that satisfies isEncryptedValue.
C11_StructurePreserved ==
    encrypted # None => Tokenized(data, encrypted)

\* a tree with a nested mapping and an array leaf was encrypted
C11_Witness ==
    /\ encrypted # None
    /\ HasNestedMapping(data)
    /\ JArr(<<JNull>>) \in Leaves(data)
    /\ Tokenized(data, encrypted)

----------------------------------------------------------------------------
(* Claims about the tokens relic edit writes *)

\* every top-level key whose plaintext value is the same before and after the
\* edit has the same encrypted entry in both artifacts
TokensKept(oldEnc, newEnc, oldPlain, newPlain) ==
    \A i \in 1..Len(oldPlain.v) :
        LET k == oldPlain.v[i].k IN
        (HasKey(newPlain, k) /\ Get(newPlain, k) = Get(oldPlain, k))
            => Get(newEnc, k) = Get(oldEnc, k)

\* TokensKept for the artifact of before, whose every leaf is a token, and
\* the committed one
ArtifactTokensKept(oldEnc, newEnc, oldPlain) ==
    (oldPlain.t = "ok" /\ Tokenized(oldPlain.v, oldEnc))
        => TokensKept(oldEnc, newEnc, oldPlain.v, JsonParse(edited.left.v).v)

\* ArtifactTokensKept with the decrypted tree of the artifact of before
KeptSince(oldEnc, newEnc) ==
    ArtifactTokensKept(oldEnc, newEnc, decryptSecrets(editKey.v, oldEnc))

\* C12: after a committed edit, the encrypted entries of the keys whose
\* values the editor did not change are the same in the artifact as before.
C12_UnchangedTokensKept ==
    (pc = "exited" /\ exitCode = 0 /\ artifact0 # Absent)
        => KeptSince(JsonParse(artifact0.v).v, JsonParse(artifact.v).v)

----------------------------------------------------------------------------
(* Claims about repeated encryptValue calls *)

\* C13: two encryptValue calls with the same master key, value and iteration
\* count return different tokens whenever the random source gave them
\* different salt and IV (tokens are equal only when the draws are), and every
\* such token decrypts to the value.
C13_FreshTokens ==
    /\ \A i, j \in 1..Len(calls) :
          (calls[i].token = calls[j].token) <=> (calls[i].r = calls[j].r)
    /\ callOuts # None => \A i \in 1..Len(calls) : callOuts.v[i] = Ok(calls[1].value)

\* two calls returned different tokens and both were decrypted
C13_Witness ==
    /\ Len(calls) = 2
    /\ calls[1].token # calls[2].token
    /\ callOuts # None
    /\ callOuts.v[1] = Ok(calls[1].value) /\ callOuts.v[2] = Ok(calls[1].value)

----------------------------------------------------------------------------
(* Claims about plaintext leaves *)

RECURSIVE PlainKept(_, _)
\* y has the keys of x at every level and, wherever x holds a value that is
\* neither a token nor a mapping, the same value
PlainKept(x, y) ==
    IF IsMapping(x)
    THEN /\ IsMapping(y)
         /\ ObjectKeys(x) = ObjectKeys(y)
         /\ \A i \in 1..Len(x.v) : PlainKept(x.v[i].v, y.v[i].v)
    ELSE isEncryptedValue(x) \/ y = x

\* the tree holds no token
NoToken(x) == \A v \in Leaves(x) : ~isEncryptedValue(v)

----------------------------------------------------------------------------
(* Claims about the format check *)

\* what the called function returns for the whole call
PayloadResult(c) ==
    IF c.fn = "decryptPayload" THEN decryptPayload(c.key, c.text)
    ELSE decryptAndParse(c.key, c.text)

----------------------------------------------------------------------------
(* Claims about key resolution, the runtime cache and the accessors *)

\* the key file holds more than white space
NonBlank(kf) == kf # Absent /\ \E i \in 1..Len(kf.v) : ~IsSpace(kf.v[i])

\* the key file is missing or has no content at all
NoKeyFile(kf) == kf = Absent \/ kf.v = <<>>

\* the calls of the instances created without a masterKey option
FromFileOrEnv(i) == loads[i].key # None /\ ~Truthy(OptionsOf(loads[i].inst).masterKey)

Loaded(i) == loads[i].phase = "done" /\ loads[i].secrets.t = "ok"

\* the instance of the call caches
Caching(i) == OptionsOf(loads[i].inst).cache

\* two calls for the same master key and artifact
SamePair(i, j) == loads[i].key = loads[j].key /\ loads[i].art = loads[j].art

\* C17: With caching, a load() that starts after a load() for the same
\* master key and artifact has completed returns the very object that load
\* returned and does not decrypt, whichever instances made the calls.  With
\* cache: false a load() decrypts, returns an object of its own that is
\* deeply equal to what the other loads of the pair returned, and no object
\* of such a load is in the cache.
C17_SameObject ==
    /\ \A i, j \in 1..Len(loads) :
         (Loaded(i) /\ Loaded(j) /\ j \in loads[i].after /\ SamePair(i, j)
            /\ Caching(i) /\ Caching(j))
           => (loads[i].secrets.v.id = loads[j].secrets.v.id /\ ~loads[i].decrypted)
    /\ \A i \in 1..Len(loads) :
         (Loaded(i) /\ ~Caching(i))
           => /\ loads[i].decrypted /\ ~loads[i].hit /\ loads[i].secrets.v.id = i
              /\ \A j \in 1..Len(loads) :
                   (Loaded(j) /\ SamePair(i, j)) => loads[j].secrets.v.v = loads[i].secrets.v.v
    /\ \A e \in globalCache : Caching(e.v.id)

\* a settled call of fn whose load() returned secrets
Answered(i, fn) == Loaded(i) /\ loads[i].fn = fn

\* k is one of the keys a keys() call returned
Listed(k, j) == \E n \in 1..Len(loads[j].out.v) : loads[j].out.v[n] = k

\* C18: On one instance, has(k) is true exactly when k is among keys();
\* get(k) throws KEY_NOT_FOUND exactly when has(k) is false, and otherwise
\* returns the value the secrets of load() hold under k.
C18_Accessors ==
    \A i, j \in 1..Len(loads) :
        /\ (Answered(i, "has") /\ Answered(j, "keys") /\ loads[i].inst = loads[j].inst)
             => (loads[i].out = Ok(TRUE) <=> Listed(loads[i].arg.v, j))
        /\ (Answered(i, "get") /\ Answered(j, "has") /\ loads[i].inst = loads[j].inst
              /\ loads[i].arg = loads[j].arg)
             => (loads[i].out = Err(KEY_NOT_FOUND) <=> loads[j].out = Ok(FALSE))
        /\ (Answered(i, "get") /\ loads[i].out # Err(KEY_NOT_FOUND))
             => /\ HasKey(loads[i].secrets.v.v, loads[i].arg.v)
                /\ loads[i].out = Ok(Get(loads[i].secrets.v.v, loads[i].arg.v))

----------------------------------------------------------------------------
(* Claims about relic init and relic --print-keys *)

\* C19: relic init run while the key file exists, with or without an
\* artifact file, exits with a non-zero status and creates or modifies no
\* file; the key file is never overwritten.
C19_InitRefuses ==
    [][(pc = "idle" /\ keyFile # Absent)
         => /\ exitCode' # 0
            /\ keyFile' = keyFile
            /\ artifact' = artifact
            /\ artifactDir' = artifactDir
            /\ gitignore' = gitignore]_vars

\* what the listing of the top-level keys looks like
ExpectedListing(keys) ==
    <<Line("stdout", <<Txt("Secret keys:")>>)>>
    \o [i \in 1..Len(keys) |-> Line("stdout", <<Txt("  - ")>> \o keys[i])]

\* p occurs in s
Contains(s, p) == \E k \in 0..(Len(s) - Len(p)) : SubSeq(s, k + 1, k + Len(p)) = p

\* the line shows the value: as JSON, or a string value as it is
Shows(line, leaf) ==
    \/ Contains(line.text, Stringify(leaf))
    \/ leaf.t = "str" /\ Contains(line.text, leaf.v)

\* C20: relic --print-keys that succeeds prints the heading and one line for
\* each top-level key of the artifact, in order, and nothing else, so that
\* artifacts with the same top-level keys give the same output; when it
\* fails, all it prints is message text.  No line on stdout or stderr shows
\* a secret value.
C20_KeysOnly ==
    pc = "exited" =>
        /\ exitCode = 0 => output = ExpectedListing(ObjectKeys(JsonParse(artifact.v).v))
        /\ exitCode # 0 =>
             \A n \in 1..Len(output) :
                 \A u \in 1..Len(output[n].text) : output[n].text[u].t = "txt"
        /\ \A n \in 1..Len(output) :
               \A d \in EditTrees : \A leaf \in Leaves(d) : ~Shows(output[n], leaf)

\* the keys of secrets with a string, a nested mapping and a string that
\* looks like a token have been listed
C20_Witness ==
    /\ pc = "exited" /\ exitCode = 0
    /\ output = ExpectedListing(<<KA, KB>>)

----------------------------------------------------------------------------
(* Claims about malformed tokens, version tags and the edit transaction *)

\* C21: decryptValue of a string that has the token prefix and a malformed
\* body (cut short, empty, an iteration count of 0, a ciphertext shorter
\* than the tag) fails with DECRYPT_FAILED: it returns no value and fails
\* with no other error.
C21_MalformedFails ==
    (leafOut # None /\ altered = "body") => leafOut.out = Err(DECRYPT_FAILED)

\* the error codes that report a wrong format
FormatErrors == { Err(UNSUPPORTED_VERSION), Err(INVALID_ARTIFACT_FORMAT), Err(INVALID_JSON) }

\* C22: A token with an unsupported version tag ("relic:v2:") is rejected
\* with the invalid-format error by decryptValue and by decryptSecrets; it is
\* never returned as if it were a plaintext value.
C22_VersionRejected ==
    altered = "version" =>
        /\ leafOut # None => leafOut.out \in FormatErrors
        /\ treeOut # None => treeOut \in FormatErrors

\* the state of the Edit Transaction: Loaded is passed inside the step that
\* leaves Idle, and Validating lasts from the end of the editor until the
\* process exits
TxnState ==
    CASE pc = "idle" -> "Idle"
      [] pc = "editing" -> "Editing"
      [] pc \in {"editorDone", "commit", "writing", "written"} -> "Validating"
      [] pc = "exited" /\ exitCode = 0 -> "Committed"
      [] OTHER -> "Aborted"

\* the place of a state in Idle, Loaded, Editing, Validating, Committed | Aborted
Rank(st) ==
    CASE st = "Idle" -> 0
      [] st = "Editing" -> 2
      [] st = "Validating" -> 3
      [] OTHER -> 4

\* the editor closed with code 0 and left a JSON object that is no array
Validated ==
    /\ edited # None /\ edited.status = "close" /\ edited.code = 0
    /\ edited.left # Absent
    /\ JsonParse(edited.left.v).ok
    /\ JsonParse(edited.left.v).v.t = "obj"

\* a step to a later state or inside Validating, never out of a terminal state
InOrder ==
    /\ Rank(TxnState') >= Rank(TxnState)
    /\ TxnState' = TxnState => TxnState = "Validating" /\ pc' # pc /\ pc' # "editorDone"
    /\ pc = "exited" => pc' = "exited" /\ exitCode' = exitCode

\* the artifact changes only between a successful validation and Committed
WrittenOnCommit ==
    artifact' # artifact =>
        /\ TxnState = "Validating" /\ Validated
        /\ TxnState' \in {"Validating", "Committed"}

\* C23: an Edit Transaction moves through Idle, Loaded, Editing, Validating
\* in this order and ends in exactly one of Committed or Aborted; the artifact
\* is written only on the way from Validating to Committed after the
\* validation has succeeded; no state is entered again; and once the editor
\* process has ended the transaction reaches a terminal state.
C23_StateOrder ==
    /\ [][(pc' # pc \/ artifact' # artifact) => InOrder /\ WrittenOnCommit]_vars
    /\ []((pc = "exited" /\ artifact # artifact0) => (exitCode = 0 /\ Validated))
    /\ (pc = "editorDone") ~> (pc = "exited")

\* a transaction went through all states and committed over an existing artifact
C23_Witness ==
    /\ TxnState = "Committed"
    /\ Validated
    /\ artifact0 # Absent /\ artifact # artifact0
    /\ tempFile = Absent

----------------------------------------------------------------------------
(* Claims about the order of the walker's results *)

\* the plaintext each settled task belongs to
Plain(fn, key, in, out) ==
    IF fn = "encrypt" THEN decryptValue(key, out) = Ok(in)
    ELSE Ok(out) = decryptValue(key, in)

\* C24: whatever the order in which the entries' tasks of one encryptSecrets
\* or decryptSecrets call complete, the result has the input's keys in the
\* input's order at every level, and at the path of every leaf the result of
\* that leaf's own task, which belongs to that leaf's input value.
C24_OwnKeyPath ==
    (walkResult # None /\ walkResult.t = "ok") =>
        /\ SameShape(walkResult.v, walkTree)
        /\ \A p \in DOMAIN tasks :
             /\ ValueAt(walkResult.v, p) = tasks[p].v
             /\ Plain(walkFn, walkKey, ValueAt(walkTree, p), ValueAt(walkResult.v, p))

\* a nested tree was decrypted whose tasks completed last entry first
C24_Witness ==
    /\ walkResult # None /\ walkResult.t = "ok"
    /\ walkFn = "decrypt"
    /\ order = << <<2>>, <<1, 2>>, <<1, 1>> >>
    /\ ValueAt(walkResult.v, <<1, 1>>) # ValueAt(walkResult.v, <<1, 2>>)

----------------------------------------------------------------------------
(* Claims about the runtime cache key and overlapping loads *)

\* the call got as far as the cache check
Keyed(i) == loads[i].art.t = "ok" /\ loads[i].key # None /\ loads[i].key.t = "ok"

\* C25: With caching, two calls with distinct (master key, artifact) pairs
\* never have the same cache key, and a load() that is answered from the
\* cache receives an object that a load() with its own master key and
\* artifact text has decrypted.
C25_OwnPairOnly ==
    \A i, j \in 1..Len(loads) :
        /\ (Keyed(i) /\ Keyed(j)
              /\ CacheKey(loads[i].key.v, loads[i].art.v) = CacheKey(loads[j].key.v, loads[j].art.v))
             => SamePair(i, j)
        /\ (Loaded(i) /\ loads[i].hit /\ loads[i].secrets.v.id = j) => SamePair(i, j)

\* C26: With caching, no two load() calls have decrypted the same (master
\* key, artifact) pair, whether they ran one after the other or overlapped.
C26_DecryptedOnce ==
    \A i, j \in 1..Len(loads) :
        (Loaded(i) /\ Loaded(j) /\ Caching(i) /\ Caching(j) /\ SamePair(i, j)
           /\ loads[i].decrypted /\ loads[j].decrypted)
          => i = j

----------------------------------------------------------------------------
(* Claims about the key derivation cache *)

\* the tuple of a call
Tuple(d) == <<d.mk, d.salt, d.iterations>>

\* the call has returned a key
Derived(i) == derives[i].phase = "done" /\ derives[i].out.t = "ok"

\* every entry of the cache stays, with a key for the same tuple
EntriesKept ==
    \A e \in keyCache : \E f \in keyCache' : f.k = e.k /\ f.v.key = e.v.key

\* C27: every deriveKey call returns the key of its own (masterKey, salt,
\* iterations); calls with different tuples have different cache keys, also
\* when the master key holds a colon, so that a cache hit returns a key that
\* was derived for the same tuple; and an entry of the cache is never removed
\* nor replaced by a key for another tuple.
C27_OwnTuple ==
    /\ [](\A i \in 1..Len(derives) :
            /\ Derived(i) =>
                 /\ Ok(derives[i].out.v.key)
                      = Ok([mk |-> derives[i].mk, salt |-> derives[i].salt,
                            iterations |-> derives[i].iterations])
                 /\ derives[i].hit =>
                      Tuple(derives[derives[i].out.v.id]) = Tuple(derives[i])
            /\ \A j \in 1..Len(derives) :
                 derives[i].ck = derives[j].ck => Tuple(derives[i]) = Tuple(derives[j]))
    /\ [][EntriesKept]_vars

\* a call with a master key that holds colons was answered from the cache
\* while keys for other tuples were cached
C27_Witness ==
    /\ \E i \in 1..Len(derives) :
         /\ Derived(i) /\ derives[i].hit
         /\ \E n \in 1..Len(derives[i].mk) : derives[i].mk[n] = Chr(":")
    /\ Cardinality(keyCache) >= 2

\* two calls that overlapped in time
Overlap(i, j) == i # j /\ i \notin derives[j].after /\ j \notin derives[i].after

\* C28 (coalescing): concurrent deriveKey calls for one tuple that is not cached
\* coalesce, so that no two derivations for the same tuple are in flight at
\* the same time, and all the calls receive the same key.
C28_Coalesced ==
    \A i, j \in 1..Len(derives) :
        /\ (i # j /\ derives[i].phase = "deriving" /\ derives[j].phase = "deriving")
             => Tuple(derives[i]) # Tuple(derives[j])
        /\ (Derived(i) /\ Derived(j) /\ Tuple(derives[i]) = Tuple(derives[j]))
             => derives[i].out.v.key = derives[j].out.v.key

\* C28 (equal keys): concurrent deriveKey calls for one tuple that is not cached
\* each derive for themselves; all of them receive equal keys, and once any of
\* them has returned the cache holds a key equal to theirs under the tuple's
\* cache key.
C28_EqualKeys ==
    \A i, j \in 1..Len(derives) :
        (Overlap(i, j) /\ Tuple(derives[i]) = Tuple(derives[j]) /\ Derived(i))
          => /\ MapHas(keyCache, derives[i].ck)
             /\ MapGet(keyCache, derives[i].ck).key = derives[i].out.v.key
             /\ Derived(j) => derives[j].out.v.key = derives[i].out.v.key

\* two overlapping calls for one tuple have both derived and returned
C28_Witness ==
    \E i, j \in 1..Len(derives) :
        /\ Overlap(i, j) /\ Tuple(derives[i]) = Tuple(derives[j])
        /\ Derived(i) /\ Derived(j)
        /\ ~derives[i].hit /\ ~derives[j].hit
        /\ derives[i].out.v.id # derives[j].out.v.id

----------------------------------------------------------------------------
(* Claims about what relic writes to the artifact file *)

\* the command that has just ended has written the artifact: an init that
\* created it, or a committed edit
Wrote == pc = "exited" /\ exitCode = 0 /\ (artifact # artifact0 \/ writeBuf # None)

\* a string with the token prefix that the key decrypts
IsToken(key, leaf) ==
    key # None /\ isEncryptedValue(leaf) /\ decryptValue(key.v, leaf).t = "ok"

\* C29: whenever relic init has created the artifact or an edit has
\* committed, after any commands before it, the artifact file is a JSON
\* object whose every leaf is an encrypted token, also when the artifact the
\* edit started from held plaintext leaves.
C29_AllTokens ==
    Wrote =>
        /\ artifact # Absent
        /\ JsonParse(artifact.v).ok
        /\ \A leaf \in Leaves(JsonParse(artifact.v).v) : IsToken(editKey, leaf)

\* relic init created the key file, and a later edit committed a nested object
\* with a string that carries the token prefix
C29_Witness ==
    /\ Wrote /\ writeBuf # None
    /\ \E r \in Rand : keyFile = File(generateKey(r) \o <<Chr("\n")>>)
    /\ Cardinality(Leaves(JsonParse(artifact.v).v)) >= 2
    /\ edited.left = File(Pretty(JObj(<<Entry(KA, JObj(<<Entry(KB, JNum(0))>>)),
                                        Entry(KB, PrefixedString)>>)))

----------------------------------------------------------------------------
(* Claims about two relic edit processes on one artifact *)

\* both processes have committed
BothCommitted ==
    /\ pc = "exited" /\ exitCode = 0
    /\ otherProc # None /\ otherProc.pc = "exited" /\ otherProc.exitCode = 0

\* C30: two edit transactions on the same artifact are not coordinated.
\* Whenever one of them writes the artifact, the artifact then holds the
\* output of that transaction, so that after both have committed it holds
\* the output of the one that wrote last; and none has reported an error.
C30_LastWriterWins ==
    /\ [][(artifact' # artifact /\ pc' = "written") => artifact' = File(writeBuf.v)]_vars
    /\ [](BothCommitted =>
            /\ artifact \in { File(writeBuf.v), File(otherProc.writeBuf.v) }
            /\ printed = "Secrets saved" /\ otherProc.printed = "Secrets saved")

====
